---------------------------- MODULE Spec2Model ----------------------------
(***************************************************************************)
(* Model of the micropy-ENC28J60 host stack: the DHCPv4 client state       *)
(* machine (examples/Dhcp4Client.py) running on top of the Ntw host        *)
(* controller (examples/Ntw.py) and the ENC28J60 driver (enc28j60.py).     *)
(*                                                                         *)
(* Every handler (a loop() tick, the delivery of one UDP datagram, one     *)
(* sendUdp4 call) is one atomic action: the program is single-threaded.    *)
(* What the hardware and the peers decide is an input of the action: the   *)
(* PHY link status returned by each IsLinkUp() read, the value drawn by    *)
(* random.getrandbits(32), the received message.  The clock time.time()    *)
(* is the variable now, advanced by Tick.                                  *)
(*                                                                         *)
(* A Python exception that leaves a handler is recorded in last.exc; the   *)
(* assignments made before the raise are kept, as in the program.          *)
(*                                                                         *)
(* Sixteen specifications: Spec runs the client from construction against  *)
(* the replies of a server; TickSpec makes loop() ticks from every client  *)
(* state over a longer stretch of time; HostSpec drives the host           *)
(* controller from the application and the network; NicSpec drives the     *)
(* driver while the chip stores frames; DemuxSpec registers handlers and   *)
(* delivers IPv4 frames; UdpSpec receives and sends UDP datagrams with     *)
(* their checksums; BankSpec makes register accesses from the soft reset   *)
(* on; OptSpec decodes DHCP option fields; FragSpec sends datagrams around *)
(* and above the MTU; EthSpec receives Ethernet frames carrying ARP, ICMP  *)
(* and UDP; IdentSpec sends datagrams of every kind one after the other;   *)
(* DrvSpec makes driver calls as SPI transactions; SumSpec stores a        *)
(* checksum into a message; PhySpec steps through the busy wait of a PHY   *)
(* register access; LeaseSpec follows a renewal through a fall-back and a  *)
(* second acquisition; LiveSpec runs the client without a server while     *)
(* the clock advances.                                                     *)
(***************************************************************************)
EXTENDS Integers, Sequences, FiniteSets, TLC

VARIABLES
    dhcp,       \* the Dhcp4Client object's attributes
    ntw,        \* the Ntw object's attributes
    now,        \* time.time(), in seconds
    txFrames,   \* frames the NIC accepted for transmission during the last operation
    last,       \* the last operation: its name, inputs, return value, exception
    nic         \* the ENC28J60 object and the chip's receive side

vars == <<dhcp, ntw, now, txFrames, last, nic>>

-----------------------------------------------------------------------------
(* Bounds of the model *)

MaxTime == 4
MaxLease == 4
MaxTx == 3

-----------------------------------------------------------------------------
(* Program constants *)

DHCP4_PORT_SERVER == 67
DHCP4_PORT_CLIENT == 68
DHCP4_OP_REQUEST == 1
DHCP4_OP_REPLY == 2
DHCP4_FLAG_BROADCAST == 32768
DHCP4_MSG_TYPE_DISCOVER == 1
DHCP4_MSG_TYPE_OFFER == 2
DHCP4_MSG_TYPE_REQUEST == 3
DHCP4_MSG_TYPE_ACK == 5
DHCP4_MSG_TYPE_NAK == 6
DefaultLeaseSeconds == 86400
AwaitOfferTimeout == 5
SelectingTimeout == 10
RenewingRetryTimeout == 5
MaxRenewAttempts == 3
ENC28J60_ETH_TX_ERR_LINKDOWN == -2
EthMTU == 1500

IP4_ADDR_BCAST == <<255, 255, 255, 255>>
IP4_ADDR_ZERO == <<0, 0, 0, 0>>
ETH_ADDR_BCAST == "ff:ff:ff:ff:ff:ff"

-----------------------------------------------------------------------------
(* Values of the environment: addresses, transaction ids *)

NoIp == <<>>            \* an attribute not yet assigned / an absent option
NoInt == -1             \* an attribute not yet assigned / an absent option
NoMac == "none"

MyMac == "0e:5f:5f:00:00:01"
OtherMac == "0e:5f:5f:00:00:02"
SrvMac == "02:00:00:00:00:fe"
PeerMac == "02:00:00:00:00:05"

Y1 == <<10, 0, 2, 50>>
Y2 == <<10, 0, 2, 51>>
SrvLocal == <<10, 0, 2, 1>>         \* a server on the leased subnet, also the router
SrvRemote == <<10, 51, 100, 1>>     \* a server behind a relay
PeerIp == <<10, 0, 2, 5>>
Mask24 == <<255, 255, 255, 0>>
DnsIp == <<10, 0, 2, 53>>

Xids == {1, 2}          \* values random.getrandbits(32) may return
StaleXid == 3           \* the transaction id of an earlier exchange

T1Opt == 2              \* a value of option 58 (renewal time) when present
T2Opt == 3              \* a value of option 59 (rebinding time) when present

DhcpStates == {"Init", "AwaitOffer", "Selecting", "Bound", "RenewingInit", "Renewing"}

-----------------------------------------------------------------------------
(* Pure helpers *)

RECURSIVE BitAnd1(_, _)
BitAnd1(a, b) ==
    IF a = 0 \/ b = 0 THEN 0
    ELSE (a % 2) * (b % 2) + 2 * BitAnd1(a \div 2, b \div 2)

\* a & b of two hexadecimal digits
BitAnd4 == [a \in 0..15 |-> [b \in 0..15 |-> BitAnd1(a, b)]]

\* a & b of two non-negative integers, digit by digit
RECURSIVE BitAnd(_, _)
BitAnd(a, b) ==
    IF a = 0 \/ b = 0 THEN 0
    ELSE BitAnd4[a % 16][b % 16] + 16 * BitAnd(a \div 16, b \div 16)

BitOr(a, b) == a + b - BitAnd(a, b)

\* bytes(frame[a:b]) of a 0-based slice, cut at the end of the frame
Slice(frame, a, b) ==
    SubSeq(frame, a + 1, IF b > Len(frame) THEN Len(frame) ELSE b)

\* struct.unpack('!I', ip)[0]; the model's addresses lie below 128.0.0.0
PackIp(ip) == ((ip[1] * 256 + ip[2]) * 256 + ip[3]) * 256 + ip[4]

\* a variant that truncates the quotient, as int() would
PyRoundDown(num, den) == num \div den

\* Python's round() of the exact quotient num/den: to nearest, ties to even
PyRound(num, den) ==
    LET q == num \div den
        r == num % den
    IN  IF 2 * r < den THEN q
        ELSE IF 2 * r > den THEN q + 1
        ELSE IF q % 2 = 0 THEN q ELSE q + 1

-----------------------------------------------------------------------------
(* enc28j60.py *)

\* ENC28J60.SendPacket: the returned byte count or a negative error code.
\* link is what the IsLinkUp() read inside SendPacket returns.
SendPacket(length, link) ==
    IF length > 1518 THEN -1
    ELSE IF ~link THEN ENC28J60_ETH_TX_ERR_LINKDOWN
    ELSE length

-----------------------------------------------------------------------------
(* enc28j60.py: the receive ring and the driver calls.                     *)
(*                                                                         *)
(* nic holds the driver's nextPacket, the chip's ERXRDPT and EPKTCNT, the  *)
(* frames the chip has stored and not yet released (ring, oldest first,    *)
(* each with the next-packet pointer, length and RECEIVED_OK bit of its    *)
(* 6-byte header), the chip's write pointer, the caller's receive buffer,  *)
(* the register and buffer accesses of the last driver call (ops), the     *)
(* frames the last rxAllPkt handed to procEth (delivered), and counters of *)
(* the frames stored, the frames read and the PKTDEC pulses.  In Spec,     *)
(* TickSpec and HostSpec the chip's transmit side is txFrames.             *)

ENC28J60_RX_BUFFER_START == 0
ENC28J60_RX_BUFFER_STOP == 6143
ENC28J60_TX_BUFFER_START == 6144
ENC28J60_ETH_RX_BUFFER_SIZE == 1518
ENC28J60_ETH_TX_BUFFER_SIZE == 1518
ENC28J60_ETH_TX_ERR_MSGSIZE == -1
ENC28J60_ETH_RX_ERR_UNSPECIFIED == -1

\* ENC28J60.init: nextPacket = RX start, ERXRDPT = RX stop.  start # 0: the
\* ring after earlier frames were received and read up to start.
NicInit(start) ==
    [nextPacket |-> start,
     ERXRDPT |-> IF start = ENC28J60_RX_BUFFER_START THEN ENC28J60_RX_BUFFER_STOP
                 ELSE start - 1,
     EPKTCNT |-> 0, ring |-> <<>>, wrPt |-> start, rxBuffer |-> <<>>,
     ops |-> <<>>, delivered |-> <<>>, stored |-> 0, read |-> 0, pktdec |-> 0]

\* the chip stores a frame of len bytes: a 6-byte header, the frame, a pad
\* byte to an even address, wrapping at the end of the receive buffer
FrameStored(c, id, len, ok) ==
    LET nxt == (c.wrPt + 6 + len + (len % 2)) % (ENC28J60_RX_BUFFER_STOP + 1)
    IN  [c EXCEPT !.ring = Append(@, [id |-> id, at |-> c.wrPt, len |-> len,
                                      ok |-> ok, next |-> nxt]),
                  !.wrPt = nxt,
                  !.EPKTCNT = @ + 1,
                  !.stored = @ + 1]

\* a variant that checks the link after the transmit buffer is written
SendPacketOps_LateCheck(length, link) ==
    IF length > ENC28J60_ETH_TX_BUFFER_SIZE THEN <<>>
    ELSE << <<"SetBit", "ECON1", "TXRST">>,
            <<"ClearBit", "ECON1", "TXRST">>,
            <<"ClearBit", "EIR", "TXIF|TXERIF">>,
            <<"WriteReg", "ETXST", ENC28J60_TX_BUFFER_START>>,
            <<"WriteReg", "EWRPT", ENC28J60_TX_BUFFER_START>>,
            <<"WriteBuffer", length>>,
            <<"WriteReg", "ETXND", ENC28J60_TX_BUFFER_START + length>>,
            <<"ReadPhyReg", "PHSTAT2">> >>
         \o (IF link THEN << <<"SetBit", "ECON1", "TXRTS">> >> ELSE <<>>)

\* ENC28J60.SendPacket: the accesses it makes, in order
SendPacketOps(length, link) ==
    IF length > ENC28J60_ETH_TX_BUFFER_SIZE THEN <<>>
    ELSE IF ~link THEN << <<"ReadPhyReg", "PHSTAT2">> >>
    ELSE << <<"ReadPhyReg", "PHSTAT2">>,
            <<"SetBit", "ECON1", "TXRST">>,
            <<"ClearBit", "ECON1", "TXRST">>,
            <<"ClearBit", "EIR", "TXIF|TXERIF">>,
            <<"WriteReg", "ETXST", ENC28J60_TX_BUFFER_START>>,
            <<"WriteReg", "EWRPT", ENC28J60_TX_BUFFER_START>>,
            <<"WriteBuffer", length>>,
            <<"WriteReg", "ETXND", ENC28J60_TX_BUFFER_START + length>>,
            <<"SetBit", "ECON1", "TXRTS">> >>

\* a variant that returns on a bad frame once the packet count is
\* decremented, leaving the pointers
RxFrame_BadEarly(c, cap) ==
    LET f == Head(c.ring)
        length == IF f.len < cap THEN f.len ELSE cap
        rdpt == IF ENC28J60_RX_BUFFER_START = f.next
                THEN ENC28J60_RX_BUFFER_STOP ELSE f.next - 1
    IN  IF f.ok
        THEN [nic |-> [c EXCEPT
                !.nextPacket = f.next, !.rxBuffer = <<f.id, length>>,
                !.ERXRDPT = rdpt, !.EPKTCNT = @ - 1, !.ring = Tail(@),
                !.read = @ + 1, !.pktdec = @ + 1,
                !.ops = << <<"ReadReg", "EPKTCNT">>,
                           <<"WriteReg", "ERDPT", c.nextPacket>>,
                           <<"ReadBuffer", 6>>, <<"ReadBuffer", length>>,
                           <<"WriteReg", "ERXRDPT", rdpt>>,
                           <<"SetBit", "ECON2", "PKTDEC">> >>],
              ret |-> length]
        ELSE [nic |-> [c EXCEPT
                !.EPKTCNT = @ - 1, !.ring = Tail(@),
                !.read = @ + 1, !.pktdec = @ + 1,
                !.ops = << <<"ReadReg", "EPKTCNT">>,
                           <<"WriteReg", "ERDPT", c.nextPacket>>,
                           <<"ReadBuffer", 6>>,
                           <<"SetBit", "ECON2", "PKTDEC">> >>],
              ret |-> ENC28J60_ETH_RX_ERR_UNSPECIFIED]

\* a variant that writes the next packet pointer itself
RxReadPointer_Same(nextPacket) == nextPacket

\* the value ReceivePacket writes to ERXRDPT once nextPacket is updated
RxReadPointer(nextPacket) ==
    IF ENC28J60_RX_BUFFER_START = nextPacket
    THEN ENC28J60_RX_BUFFER_STOP ELSE nextPacket - 1

\* ReceivePacket with EPKTCNT > 0: the header at nextPacket is read, the
\* frame copied if RECEIVED_OK, ERXRDPT advanced and PKTDEC set
RxFrame(c, cap) ==
    LET f == Head(c.ring)
        length == IF f.ok
                  THEN IF f.len < ENC28J60_ETH_RX_BUFFER_SIZE
                       THEN (IF f.len < cap THEN f.len ELSE cap)
                       ELSE (IF ENC28J60_ETH_RX_BUFFER_SIZE < cap
                             THEN ENC28J60_ETH_RX_BUFFER_SIZE ELSE cap)
                  ELSE ENC28J60_ETH_RX_ERR_UNSPECIFIED
        rdpt == RxReadPointer(f.next)
    IN  [nic |-> [c EXCEPT
            !.nextPacket = f.next,
            !.rxBuffer = IF f.ok THEN <<f.id, length>> ELSE @,
            !.ERXRDPT = rdpt,
            !.EPKTCNT = @ - 1,
            !.ring = Tail(@),
            !.read = @ + 1,
            !.pktdec = @ + 1,
            !.ops = << <<"ReadReg", "EPKTCNT">>,
                       <<"WriteReg", "ERDPT", c.nextPacket>>,
                       <<"ReadBuffer", 6>> >>
                    \o (IF f.ok THEN << <<"ReadBuffer", length>> >> ELSE <<>>)
                    \o << <<"WriteReg", "ERXRDPT", rdpt>>,
                          <<"SetBit", "ECON2", "PKTDEC">> >>],
         ret |-> length]

\* a variant that sets PKTDEC before it tests the packet count
ReceivePacket_DecFirst(c, cap) ==
    IF 0 = c.EPKTCNT
    THEN [nic |-> [c EXCEPT !.pktdec = @ + 1,
                            !.ops = << <<"SetBit", "ECON2", "PKTDEC">>,
                                       <<"ReadReg", "EPKTCNT">> >>],
          ret |-> 0]
    ELSE RxFrame(c, cap)

\* ENC28J60.ReceivePacket(rxBuffer) with len(rxBuffer) = cap: the nic after
\* the call and the value returned
ReceivePacket(c, cap) ==
    IF 0 = c.EPKTCNT
    THEN [nic |-> [c EXCEPT !.ops = << <<"ReadReg", "EPKTCNT">> >>], ret |-> 0]
    ELSE RxFrame(c, cap)

-----------------------------------------------------------------------------
(* enc28j60.py: register access.  c is the driver's cached bank together   *)
(* with the chip's ECON1 register and the SPI transactions of the call in  *)
(* progress, each <<opcode, register address, data, the bank selected in   *)
(* the chip when it was made, the driver's cached bank when chip-select    *)
(* was released, ECON1 before the transaction, ECON1 after it>>.  ECON1 is *)
(* the register 0x1F of every bank; a system reset command clears it.      *)
(* The chip ends a transmission on its own: c.txdone is the number of      *)
(* transactions of the call after which it clears ECON1.TXRTS, if that bit *)
(* is then set (NoInt: not during the call).                               *)

ETH_REG_TYPE == 0
MAC_REG_TYPE == 4096
MII_REG_TYPE == 8192
BANK_0 == 0
BANK_1 == 256
BANK_2 == 512
BANK_3 == 768
REG_BANK_MASK == 3840
REG_ADDR_MASK == 31
ENC28J60_ERDPTL == ETH_REG_TYPE + BANK_0 + 0
ENC28J60_EIR == ETH_REG_TYPE + BANK_0 + 28
ENC28J60_ECON2 == ETH_REG_TYPE + BANK_0 + 30
ENC28J60_ECON1 == ETH_REG_TYPE + BANK_0 + 31
ENC28J60_ERXFCON == ETH_REG_TYPE + BANK_1 + 24
ENC28J60_EPKTCNT == ETH_REG_TYPE + BANK_1 + 25
ENC28J60_MACON1 == MAC_REG_TYPE + BANK_2 + 0
ENC28J60_MIREGADR == MII_REG_TYPE + BANK_2 + 20
ENC28J60_MAADR5 == MAC_REG_TYPE + BANK_3 + 4
ENC28J60_MISTAT == MII_REG_TYPE + BANK_3 + 10
ENC28J60_ECON1_TXRST == 128
ENC28J60_ECON1_TXRTS == 8
ENC28J60_ECON1_RXEN == 4
ENC28J60_ECON1_BSEL1 == 2
ENC28J60_ECON1_BSEL0 == 1

\* the bank the chip has selected: ECON1[BSEL1:BSEL0]
Bsel(c) == c.ECON1 % 4

\* ECON1 as the next transaction finds it
Econ1Now(c) ==
    IF c.txdone = Len(c.spi) /\ BitAnd(c.ECON1, ENC28J60_ECON1_TXRTS) # 0
    THEN c.ECON1 - ENC28J60_ECON1_TXRTS
    ELSE c.ECON1

\* one SPI transaction and what it does to ECON1
Spi(c, opcode, address, data) ==
    LET a == BitAnd(address, REG_ADDR_MASK)
        b == Econ1Now(c)
        e == IF a # BitAnd(ENC28J60_ECON1, REG_ADDR_MASK) THEN b
             ELSE CASE opcode = "BFS" -> BitOr(b, data)
                    [] opcode = "BFC" -> b - BitAnd(b, data)
                    [] opcode = "WCR" -> data
                    [] opcode = "SRC" -> 0
                    [] OTHER -> b
    IN  [c EXCEPT !.ECON1 = e,
                  !.spi = Append(@, <<opcode, a, data, b % 4, c.currentBank, b, e>>)]

ClearBit(c, address, mask) == Spi(c, "BFC", address, mask)

SetBit(c, address, mask) == Spi(c, "BFS", address, mask)

\* a variant that changes the chip's bank and leaves the cache alone
SelectBank_NoCache(c, address) ==
    LET bank == BitAnd(address, REG_BANK_MASK)
    IN  IF bank = c.currentBank THEN c
        ELSE IF bank = BANK_0
        THEN ClearBit(c, ENC28J60_ECON1, ENC28J60_ECON1_BSEL1 + ENC28J60_ECON1_BSEL0)
        ELSE SetBit(ClearBit(c, ENC28J60_ECON1, ENC28J60_ECON1_BSEL1 + ENC28J60_ECON1_BSEL0),
                    ENC28J60_ECON1, bank \div 256)

\* a variant that sets the bits of the bank and clears none
SelectBank_SetOnly(c, address) ==
    LET bank == BitAnd(address, REG_BANK_MASK)
    IN  IF bank = c.currentBank THEN c
        ELSE [(IF bank = BANK_0
               THEN ClearBit(c, ENC28J60_ECON1, ENC28J60_ECON1_BSEL1 + ENC28J60_ECON1_BSEL0)
               ELSE SetBit(c, ENC28J60_ECON1, bank \div 256))
              EXCEPT !.currentBank = bank]

\* ENC28J60.SelectBank
SelectBank(c, address) ==
    LET bank == BitAnd(address, REG_BANK_MASK)
        sel == CASE bank = BANK_0 ->
                      ClearBit(c, ENC28J60_ECON1, BitOr(ENC28J60_ECON1_BSEL1, ENC28J60_ECON1_BSEL0))
                 [] bank = BANK_1 ->
                      ClearBit(SetBit(c, ENC28J60_ECON1, ENC28J60_ECON1_BSEL0),
                               ENC28J60_ECON1, ENC28J60_ECON1_BSEL1)
                 [] bank = BANK_2 ->
                      SetBit(ClearBit(c, ENC28J60_ECON1, ENC28J60_ECON1_BSEL0),
                             ENC28J60_ECON1, ENC28J60_ECON1_BSEL1)
                 [] OTHER ->
                      SetBit(c, ENC28J60_ECON1, BitOr(ENC28J60_ECON1_BSEL1, ENC28J60_ECON1_BSEL0))
    IN  IF bank = c.currentBank THEN c
        ELSE [sel EXCEPT !.currentBank = bank]

\* ENC28J60.WriteReg
WriteReg(c, address, data) == Spi(SelectBank(c, address), "WCR", address, data)

\* ENC28J60.ReadReg: the value read is the chip's
ReadReg(c, address) == Spi(SelectBank(c, address), "RCR", address, 0)

-----------------------------------------------------------------------------
(* enc28j60.py: the driver calls as the SPI transactions they make.  busy  *)
(* is the number of MISTAT reads of a PHY access that find BUSY set before *)
(* one finds it clear.                                                     *)

PHY_REG_TYPE == 12288
ENC28J60_ERDPTH == ETH_REG_TYPE + BANK_0 + 1
ENC28J60_EWRPTL == ETH_REG_TYPE + BANK_0 + 2
ENC28J60_EWRPTH == ETH_REG_TYPE + BANK_0 + 3
ENC28J60_ETXSTL == ETH_REG_TYPE + BANK_0 + 4
ENC28J60_ETXSTH == ETH_REG_TYPE + BANK_0 + 5
ENC28J60_ETXNDL == ETH_REG_TYPE + BANK_0 + 6
ENC28J60_ETXNDH == ETH_REG_TYPE + BANK_0 + 7
ENC28J60_ERXSTL == ETH_REG_TYPE + BANK_0 + 8
ENC28J60_ERXSTH == ETH_REG_TYPE + BANK_0 + 9
ENC28J60_ERXNDL == ETH_REG_TYPE + BANK_0 + 10
ENC28J60_ERXNDH == ETH_REG_TYPE + BANK_0 + 11
ENC28J60_ERXRDPTL == ETH_REG_TYPE + BANK_0 + 12
ENC28J60_ERXRDPTH == ETH_REG_TYPE + BANK_0 + 13
ENC28J60_EIE == ETH_REG_TYPE + BANK_0 + 27
ENC28J60_EHT0 == ETH_REG_TYPE + BANK_1 + 0
ENC28J60_MACON2 == MAC_REG_TYPE + BANK_2 + 1
ENC28J60_MACON3 == MAC_REG_TYPE + BANK_2 + 2
ENC28J60_MACON4 == MAC_REG_TYPE + BANK_2 + 3
ENC28J60_MABBIPG == MAC_REG_TYPE + BANK_2 + 4
ENC28J60_MAIPGL == MAC_REG_TYPE + BANK_2 + 6
ENC28J60_MAIPGH == MAC_REG_TYPE + BANK_2 + 7
ENC28J60_MACLCON2 == MAC_REG_TYPE + BANK_2 + 9
ENC28J60_MAMXFLL == MAC_REG_TYPE + BANK_2 + 10
ENC28J60_MAMXFLH == MAC_REG_TYPE + BANK_2 + 11
ENC28J60_MICMD == MII_REG_TYPE + BANK_2 + 18
ENC28J60_MIWRL == MII_REG_TYPE + BANK_2 + 22
ENC28J60_MIWRH == MII_REG_TYPE + BANK_2 + 23
ENC28J60_MIRDL == MII_REG_TYPE + BANK_2 + 24
ENC28J60_MIRDH == MII_REG_TYPE + BANK_2 + 25
ENC28J60_MAADR1 == MAC_REG_TYPE + BANK_3 + 0
ENC28J60_MAADR0 == MAC_REG_TYPE + BANK_3 + 1
ENC28J60_MAADR3 == MAC_REG_TYPE + BANK_3 + 2
ENC28J60_MAADR2 == MAC_REG_TYPE + BANK_3 + 3
ENC28J60_MAADR4 == MAC_REG_TYPE + BANK_3 + 5
ENC28J60_EREVID == ETH_REG_TYPE + BANK_3 + 18
ENC28J60_ECOCON == ETH_REG_TYPE + BANK_3 + 21
ENC28J60_PHCON1 == PHY_REG_TYPE + 0
ENC28J60_PHCON2 == PHY_REG_TYPE + 16
ENC28J60_PHSTAT2 == PHY_REG_TYPE + 17
ENC28J60_PHIE == PHY_REG_TYPE + 18
ENC28J60_PHIR == PHY_REG_TYPE + 19
ENC28J60_EIR_LINKIF == 16
ENC28J60_EIR_TXIF == 8
ENC28J60_EIR_TXERIF == 2
ENC28J60_ECON2_PKTDEC == 64
ENC28J60_MICMD_MIIRD == 1
ENC28J60_RSV_RECEIVED_OK == 128
\* the address part of the buffer commands ENC28J60_CMD_RBM = 0x3A and
\* ENC28J60_CMD_WBM = 0x7A
BufferAddr == 26

LSB(val) == val % 256

MSB(val) == (val \div 256) % 256

\* ENC28J60.SoftReset: the command 0xFF
SoftReset(c) == Spi(c, "SRC", REG_ADDR_MASK, 0)

\* while 0 != (self.ReadReg(ENC28J60_MISTAT) & ENC28J60_MISTAT_BUSY): pass
RECURSIVE PhyWait(_, _)
PhyWait(c, busy) ==
    IF busy = 0 THEN ReadReg(c, ENC28J60_MISTAT)
    ELSE PhyWait(ReadReg(c, ENC28J60_MISTAT), busy - 1)

\* ENC28J60.WritePhyReg
WritePhyReg(c, address, data, busy) ==
    PhyWait(WriteReg(WriteReg(WriteReg(c, ENC28J60_MIREGADR, BitAnd(address, REG_ADDR_MASK)),
                              ENC28J60_MIWRL, LSB(data)),
                     ENC28J60_MIWRH, MSB(data)),
            busy)

\* ENC28J60.ReadPhyReg
ReadPhyReg(c, address, busy) ==
    ReadReg(ReadReg(WriteReg(PhyWait(WriteReg(WriteReg(c, ENC28J60_MIREGADR,
                                                       BitAnd(address, REG_ADDR_MASK)),
                                              ENC28J60_MICMD, ENC28J60_MICMD_MIIRD),
                                     busy),
                             ENC28J60_MICMD, 0),
                    ENC28J60_MIRDL),
            ENC28J60_MIRDH)

\* ENC28J60.IsLinkUp: the transactions it makes
IsLinkUp(c, busy) == ReadPhyReg(c, ENC28J60_PHSTAT2, busy)

\* ENC28J60.IsLinkStateChanged: the transactions it makes; linkif is the
\* bit EIR.LINKIF of the value read
IsLinkStateChanged(c, linkif, busy) ==
    IF ~linkif THEN ReadReg(c, ENC28J60_EIR)
    ELSE ClearBit(ReadPhyReg(ReadReg(c, ENC28J60_EIR), ENC28J60_PHIR, busy),
                  ENC28J60_EIR, ENC28J60_EIR_LINKIF)

\* ENC28J60.GetRxPacketCnt
GetRxPacketCnt(c) == ReadReg(c, ENC28J60_EPKTCNT)

\* ENC28J60.WriteBuffer: one transaction that carries the per-packet
\* control byte 0x00 and then the chunks in order
RECURSIVE Concat(_)
Concat(chunks) == IF chunks = <<>> THEN <<>> ELSE Head(chunks) \o Concat(Tail(chunks))

WriteBuffer(c, chunks) == Spi(c, "WBM", BufferAddr, <<0>> \o Concat(chunks))

\* ENC28J60.ReadBuffer of n bytes
ReadBuffer(c, n) == Spi(c, "RBM", BufferAddr, n)

\* the register accesses of init() after the reset, in order: <<"W",
\* register, value>> for WriteReg, <<"R", register>> for ReadReg, <<"P",
\* PHY register, value>> for WritePhyReg
InitAccesses(macAddr, fullDuplex, enableMulticastRx) ==
    << <<"R", ENC28J60_EREVID>>,
       <<"W", ENC28J60_ECOCON, 0>>,
       <<"W", ENC28J60_MAADR5, macAddr[1]>>,
       <<"W", ENC28J60_MAADR4, macAddr[2]>>,
       <<"W", ENC28J60_MAADR3, macAddr[3]>>,
       <<"W", ENC28J60_MAADR2, macAddr[4]>>,
       <<"W", ENC28J60_MAADR1, macAddr[5]>>,
       <<"W", ENC28J60_MAADR0, macAddr[6]>>,
       <<"W", ENC28J60_ERXSTL, LSB(ENC28J60_RX_BUFFER_START)>>,
       <<"W", ENC28J60_ERXSTH, MSB(ENC28J60_RX_BUFFER_START)>>,
       <<"W", ENC28J60_ERXNDL, LSB(ENC28J60_RX_BUFFER_STOP)>>,
       <<"W", ENC28J60_ERXNDH, MSB(ENC28J60_RX_BUFFER_STOP)>>,
       <<"W", ENC28J60_ERXRDPTL, LSB(ENC28J60_RX_BUFFER_STOP)>>,
       <<"W", ENC28J60_ERXRDPTH, MSB(ENC28J60_RX_BUFFER_STOP)>>,
       \* UCEN | CRCEN | HTEN | BCEN, with MCEN for multicast
       <<"W", ENC28J60_ERXFCON, IF enableMulticastRx THEN 167 ELSE 165>> >>
    \o [i \in 1..8 |-> <<"W", ENC28J60_EHT0 + (i - 1), 0>>]
    \o << <<"W", ENC28J60_MACON2, 0>>,
          \* TXPAUS | RXPAUS | MARXEN
          <<"W", ENC28J60_MACON1, 13>>,
          \* PADCFG_AUTO | TXCRCEN | FRMLNEN, with FULDPX
          <<"W", ENC28J60_MACON3, IF fullDuplex THEN 179 ELSE 178>>,
          \* DEFER
          <<"W", ENC28J60_MACON4, 64>>,
          <<"W", ENC28J60_MAMXFLL, LSB(ENC28J60_ETH_RX_BUFFER_SIZE)>>,
          <<"W", ENC28J60_MAMXFLH, MSB(ENC28J60_ETH_RX_BUFFER_SIZE)>>,
          \* MABBIPG_DEFAULT_FD, MABBIPG_DEFAULT_HD
          <<"W", ENC28J60_MABBIPG, IF fullDuplex THEN 21 ELSE 18>>,
          <<"W", ENC28J60_MAIPGL, 18>>,
          <<"W", ENC28J60_MAIPGH, 12>>,
          <<"W", ENC28J60_MACLCON2, 55>>,
          \* PHCON1_PDPXMD
          <<"P", ENC28J60_PHCON1, IF fullDuplex THEN 256 ELSE 0>>,
          \* PHCON2_HDLDIS
          <<"P", ENC28J60_PHCON2, 256>>,
          <<"W", ENC28J60_EIR, 0>>,
          \* INTIE | PKTIE | LINKIE
          <<"W", ENC28J60_EIE, 208>>,
          \* PLNKIE | PGEIE
          <<"P", ENC28J60_PHIE, 18>>,
          <<"W", ENC28J60_ECON1, ENC28J60_ECON1_RXEN>> >>

\* one access of the list
Access(c, a, busy) ==
    CASE a[1] = "W" -> WriteReg(c, a[2], a[3])
      [] a[1] = "R" -> ReadReg(c, a[2])
      [] OTHER -> WritePhyReg(c, a[2], a[3], busy)

\* the accesses of the list one after the other, each made on the state
\* the one before left (reading Len(c.spi) makes TLC evaluate that state
\* before it goes on, which keeps the evaluation shallow)
RECURSIVE Accesses(_, _, _)
Accesses(c, list, busy) ==
    IF list = <<>> \/ Len(c.spi) < 0 THEN c
    ELSE Accesses(Access(c, Head(list), busy), Tail(list), busy)

\* ENC28J60.init(): the reset, the driver's variables and the registers
DrvInit(c, macAddr, fullDuplex, enableMulticastRx, busy) ==
    Accesses([SoftReset(c) EXCEPT !.currentBank = 65535,
                                  !.nextPacket = ENC28J60_RX_BUFFER_START],
             InitAccesses(macAddr, fullDuplex, enableMulticastRx), busy)

\* the length SendPacket computes
ChunksLen(chunks) == Len(Concat(chunks))

\* a variant that programs ETXND one byte lower
TxEnd_Before(length) == ENC28J60_TX_BUFFER_START + length - 1

\* the value SendPacket programs into ETXND
TxEnd(length) == ENC28J60_TX_BUFFER_START + length

\* ENC28J60.SendPacket(chunks): the transactions it makes; link is what
\* IsLinkUp() returns
SendPacketSpi(c, chunks, link, busy) ==
    IF ChunksLen(chunks) > ENC28J60_ETH_TX_BUFFER_SIZE THEN c
    ELSE IF ~link THEN IsLinkUp(c, busy)
    ELSE SetBit(
           WriteReg(
             WriteReg(
               WriteBuffer(
                 WriteReg(
                   WriteReg(
                     WriteReg(
                       WriteReg(
                         ClearBit(
                           ClearBit(
                             SetBit(IsLinkUp(c, busy), ENC28J60_ECON1, ENC28J60_ECON1_TXRST),
                             ENC28J60_ECON1, ENC28J60_ECON1_TXRST),
                           ENC28J60_EIR, BitOr(ENC28J60_EIR_TXIF, ENC28J60_EIR_TXERIF)),
                         ENC28J60_ETXSTL, LSB(ENC28J60_TX_BUFFER_START)),
                       ENC28J60_ETXSTH, MSB(ENC28J60_TX_BUFFER_START)),
                     ENC28J60_EWRPTL, LSB(ENC28J60_TX_BUFFER_START)),
                   ENC28J60_EWRPTH, MSB(ENC28J60_TX_BUFFER_START)),
                 chunks),
               ENC28J60_ETXNDL, LSB(TxEnd(ChunksLen(chunks)))),
             ENC28J60_ETXNDH, MSB(TxEnd(ChunksLen(chunks)))),
           ENC28J60_ECON1, ENC28J60_ECON1_TXRTS)

\* ENC28J60.ReceivePacket(rxBuffer): the transactions it makes and the
\* driver's nextPacket.  cnt is the EPKTCNT read, hdr the 6-byte header read
\* from the buffer at nextPacket as <<next packet, length, status>>, cap
\* len(rxBuffer)
ReceivePacketSpi(c, cnt, hdr, cap) ==
    IF 0 = cnt THEN ReadReg(c, ENC28J60_EPKTCNT)
    ELSE LET h == ReadBuffer(WriteReg(WriteReg(ReadReg(c, ENC28J60_EPKTCNT),
                                               ENC28J60_ERDPTL, LSB(c.nextPacket)),
                                      ENC28J60_ERDPTH, MSB(c.nextPacket)),
                             6)
             n1 == IF ENC28J60_ETH_RX_BUFFER_SIZE < hdr[2]
                   THEN ENC28J60_ETH_RX_BUFFER_SIZE ELSE hdr[2]
             n2 == IF cap < n1 THEN cap ELSE n1
             d == IF 0 # BitAnd(hdr[3], ENC28J60_RSV_RECEIVED_OK) THEN ReadBuffer(h, n2) ELSE h
         IN  [SetBit(WriteReg(WriteReg(d, ENC28J60_ERXRDPTL, LSB(RxReadPointer(hdr[1]))),
                              ENC28J60_ERXRDPTH, MSB(RxReadPointer(hdr[1]))),
                     ENC28J60_ECON2, ENC28J60_ECON2_PKTDEC)
                EXCEPT !.nextPacket = hdr[1]]

-----------------------------------------------------------------------------
(* Ntw.py: the host controller *)

setIPv4(n, myIp4Addr, netIp4Mask, gwIp4Addr) ==
    [n EXCEPT !.myIp4Addr = myIp4Addr, !.netIp4Mask = netIp4Mask,
              !.gwIp4Addr = gwIp4Addr, !.configIp4Done = TRUE]

setDnsSrvIpv4(n, a) == [n EXCEPT !.dnsSrv4Addr = a]

\* a registry is a function from the registered ports to the handler
Register(reg, port, cb) ==
    IF cb # "None"
    THEN [p \in (DOMAIN reg) \cup {port} |-> IF p = port THEN cb ELSE reg[p]]
    ELSE [p \in (DOMAIN reg) \ {port} |-> reg[p]]

registerUdp4Callback(n, port, cb) ==
    [n EXCEPT !.udp4UniBind = Register(@, port, cb)]

registerUdp4BcastCallback(n, port, cb) ==
    [n EXCEPT !.udp4BcastBind = Register(@, port, cb)]

\* a variant that keeps the first address learnt for an IP
addArpEntry_First(n, ip, mac) ==
    IF PackIp(ip) \in DOMAIN n.arpTable THEN n
    ELSE [n EXCEPT !.arpTable =
             [k \in (DOMAIN @) \cup {PackIp(ip)} |-> IF k = PackIp(ip) THEN mac ELSE @[k]]]

addArpEntry(n, ip, mac) ==
    [n EXCEPT !.arpTable =
        [k \in (DOMAIN @) \cup {PackIp(ip)} |-> IF k = PackIp(ip) THEN mac ELSE @[k]]]

getArpEntry(n, ip) ==
    IF PackIp(ip) \in DOMAIN n.arpTable THEN n.arpTable[PackIp(ip)] ELSE NoMac

isLocalIp4(n, ip4Addr) ==
    \A i \in 1..4 :
        BitAnd(ip4Addr[i], n.netIp4Mask[i]) = BitAnd(n.myIp4Addr[i], n.netIp4Mask[i])

\* Ntw.rxAllPkt: ReceivePacket is called until EPKTCNT reads 0 and every
\* frame it returns is handed to procEth.  late: the frames the chip
\* stores meanwhile, one after each call; acc: the frames handed over.
RECURSIVE rxAllPktFrom(_, _, _)
rxAllPktFrom(c, late, acc) ==
    IF 0 = c.EPKTCNT THEN [c EXCEPT !.delivered = acc]
    ELSE
        LET r == ReceivePacket(c, ENC28J60_ETH_RX_BUFFER_SIZE)
            c1 == IF late # <<>>
                  THEN FrameStored(r.nic, r.nic.stored + 1, Head(late)[1], Head(late)[2])
                  ELSE r.nic
        IN  rxAllPktFrom(c1, IF late # <<>> THEN Tail(late) ELSE late,
                         IF 0 >= r.ret THEN acc ELSE Append(acc, r.nic.rxBuffer))

\* a variant that makes one ReceivePacket call
rxAllPkt_Once(c, late) ==
    IF 0 = c.EPKTCNT THEN [c EXCEPT !.delivered = <<>>]
    ELSE LET r == ReceivePacket(c, ENC28J60_ETH_RX_BUFFER_SIZE)
         IN  [r.nic EXCEPT !.delivered = IF 0 >= r.ret THEN <<>> ELSE <<r.nic.rxBuffer>>]

rxAllPkt(c, late) == rxAllPktFrom(c, late, <<>>)

\* the Ethernet frame built from [eth dst, eth src, type, IPv4 header, UDP header, data]
UdpFrame(eth_dst, eth_src, ip_src, ip_dst, ident, sport, dport, data) ==
    [eth_dst |-> eth_dst, eth_src |-> eth_src, ip_src |-> ip_src, ip_dst |-> ip_dst,
     ident |-> ident, sport |-> sport, dport |-> dport, data |-> data]

FrameLen(dataLen) == 14 + 20 + 8 + dataLen

-----------------------------------------------------------------------------
(* Ntw.py: IPv4 and UDP on the wire.  A header is the sequence of its      *)
(* bytes; frame is the received frame from its IPv4 header on (the bytes   *)
(* at pkt.eth_offset and after).  An item assigned to a bytearray keeps    *)
(* its low 8 bits, as MicroPython stores it.                               *)

ETH_TYPE_IP4 == 2048
ETH_TYPE_ARP == 2054
ETH_TYPE_8021Q == 33024
ETH_HDR_SIZE == 14
ARP_OP_REQUEST == 1
ARP_OP_REPLY == 2
IP4_TYPE_ICMP == 1
IP4_TYPE_TCP == 6
IP4_TYPE_UDP == 17
ICMP4_ECHO_REPLY == 0
ICMP4_UNREACHABLE == 3
ICMP4_ECHO_REQUEST == 8
TCP_HDR_NOOPT_SIZE == 20
IP4_HDR_NOOPT_SIZE == 20
UDP_HDR_SIZE == 8

\* the sum of the 16-bit big-endian words of data; an odd last byte is the
\* high byte of a word
RECURSIVE WordSum(_)
WordSum(data) ==
    IF Len(data) = 0 THEN 0
    ELSE IF Len(data) = 1 THEN data[1] * 256
    ELSE IF Len(data) = 2 THEN data[1] * 256 + data[2]
    ELSE LET h == 2 * ((Len(data) + 2) \div 4)
         IN  WordSum(SubSeq(data, 1, h)) + WordSum(SubSeq(data, h + 1, Len(data)))

\* chksm = (chksm >> 16) + (chksm & 0xffff)
Fold(chksm) == (chksm \div 65536) + (chksm % 65536)

\* chksm += (chksm >> 16)
FoldCarry(chksm) == chksm + (chksm \div 65536)

\* a variant that folds the carries once
calcChecksum_OneFold(data, startValue) ==
    65535 - (Fold(startValue + WordSum(data)) % 65536)

\* calcChecksum(data, startValue): the carries are folded twice and the
\* low 16 bits complemented
calcChecksum(data, startValue) ==
    65535 - (FoldCarry(Fold(startValue + WordSum(data))) % 65536)

\* makeIp4Hdr with ttl = 128, dscp = 0, ecn = 0
makeIp4Hdr(src, tgt, ident, prot, dataLen, flags, fragOffset) ==
    LET totlen == IP4_HDR_NOOPT_SIZE + dataLen
        hdr == << 69, 0, (totlen \div 256) % 256, totlen % 256,
                  (ident \div 256) % 256, ident % 256,
                  BitOr(flags, (fragOffset \div 256) % 32) % 256, fragOffset % 256,
                  128, prot % 256, 0, 0 >> \o src \o tgt
        chksm == calcChecksum(hdr, 0)
    IN  [hdr EXCEPT ![11] = (chksm \div 256) % 256, ![12] = chksm % 256]

\* the sum of the pseudo-header and of the UDP header, as makeUdp4Hdr and
\* procUdp4 compute it: the words of both addresses, the protocol, the UDP
\* length twice and both ports
Udp4PseudoSum(srcIp, dstIp, udpLen, srcPort, dstPort) ==
    srcIp[1] * 256 + srcIp[2] + srcIp[3] * 256 + srcIp[4]
    + dstIp[1] * 256 + dstIp[2] + dstIp[3] * 256 + dstIp[4]
    + IP4_TYPE_UDP + 2 * udpLen + srcPort + dstPort

\* a variant that adds the UDP length once
makeUdp4Hdr_LenOnce(srcIp, srcPort, dstIp, dstPort, data) ==
    LET udpLen == Len(data) + UDP_HDR_SIZE
        chksm == calcChecksum(data, Udp4PseudoSum(srcIp, dstIp, udpLen, srcPort, dstPort) - udpLen)
    IN  << (srcPort \div 256) % 256, srcPort % 256,
           (dstPort \div 256) % 256, dstPort % 256,
           (udpLen \div 256) % 256, udpLen % 256,
           (chksm \div 256) % 256, chksm % 256 >>

\* makeUdp4Hdr: the computed checksum is stored as it is
makeUdp4Hdr(srcIp, srcPort, dstIp, dstPort, data) ==
    LET udpLen == Len(data) + UDP_HDR_SIZE
        chksm == calcChecksum(data, Udp4PseudoSum(srcIp, dstIp, udpLen, srcPort, dstPort))
    IN  << (srcPort \div 256) % 256, srcPort % 256,
           (dstPort \div 256) % 256, dstPort % 256,
           (udpLen \div 256) % 256, udpLen % 256,
           (chksm \div 256) % 256, chksm % 256 >>

\* the bytes of a frame built by sendUdp4 or sendUdp4Bcast, from the IPv4
\* header on: [makeIp4Hdr(...), makeUdp4Hdr(...), data]
Udp4Wire(f) ==
    makeIp4Hdr(f.ip_src, f.ip_dst, f.ident, IP4_TYPE_UDP, UDP_HDR_SIZE + Len(f.data), 0, 0)
    \o makeUdp4Hdr(f.ip_src, f.sport, f.ip_dst, f.dport, f.data)
    \o f.data

IP4_HDR_MF_FLAG == 32

\* one fragment on the wire: the Ethernet addresses, the IPv4 header and
\* the bytes that follow it
FragFrame(eth_dst, eth_src, ip, payload) ==
    [eth_dst |-> eth_dst, eth_src |-> eth_src, ip |-> ip, payload |-> payload]

\* a variant that counts the offset of the next fragment in bytes
NextFragOffset_Bytes(ip_frag_offset, ip_mfo) == ip_frag_offset + ip_mfo

\* ip_frag_offset += ip_mfo >> 3
NextFragOffset(ip_frag_offset, ip_mfo) == ip_frag_offset + (ip_mfo \div 8)

RECURSIVE sendUdp4Frags(_, _)
\* the while loop of Ntw.sendUdp4 that fragments the datagram.  c holds
\* what the loop reads and leaves alone, s the loop variables, the frames
\* the NIC accepted so far and the number of SendPacket calls made;
\* c.links[k] is the link state the k-th SendPacket call reads.
sendUdp4Frags(c, s) ==
    IF ~(s.data_frag_start < c.data_len) THEN s
    ELSE LET last_frag == s.data_frag_stop >= c.data_len
             ip == makeIp4Hdr(c.n.myIp4Addr, c.tgt_ip, c.n.ip4TxCount, IP4_TYPE_UDP,
                              IF last_frag THEN c.data_len - s.data_frag_start ELSE c.ip_mfo,
                              IF last_frag THEN 0 ELSE IP4_HDR_MF_FLAG,
                              s.ip_frag_offset)
             udp == IF s.first_frag
                    THEN makeUdp4Hdr(c.n.myIp4Addr, c.src_port, c.tgt_ip, c.tgt_port, c.data)
                    ELSE <<>>
             payload == udp \o Slice(c.data, s.data_frag_start, s.data_frag_stop)
             r == SendPacket(ETH_HDR_SIZE + Len(ip) + Len(payload), c.links[s.calls + 1])
         IN  sendUdp4Frags(c,
                 [n |-> s.n + r,
                  first_frag |-> FALSE,
                  data_frag_start |-> s.data_frag_stop,
                  data_frag_stop |-> s.data_frag_stop + c.ip_mfo,
                  ip_frag_offset |-> NextFragOffset(s.ip_frag_offset, c.ip_mfo),
                  tx |-> IF r >= 0 THEN Append(s.tx, FragFrame(c.tgtMac, MyMac, ip, payload))
                         ELSE s.tx,
                  calls |-> s.calls + 1])

\* Ntw.sendUdp4.  links[k] is the link state the k-th SendPacket call of
\* the send reads; data is the payload, a sequence of bytes when the
\* datagram is fragmented.  The result: the Ntw attributes after the call,
\* the frames the NIC accepted, the value returned (<<>> when the call
\* raised) and the exception raised.
sendUdp4(n, tgt_ip, tgt_port, data, dataLen, src_port, links) ==
    LET tgtMac == IF isLocalIp4(n, tgt_ip) THEN getArpEntry(n, tgt_ip)
                  ELSE getArpEntry(n, n.gwIp4Addr)
        ip_totlen == IP4_HDR_NOOPT_SIZE + UDP_HDR_SIZE + dataLen
        r == SendPacket(FrameLen(dataLen), links[1])
        f == UdpFrame(tgtMac, MyMac, n.myIp4Addr, tgt_ip, n.ip4TxCount,
                      src_port, tgt_port, data)
        ip_mfo == ((EthMTU - IP4_HDR_NOOPT_SIZE) \div 8) * 8
        frags == sendUdp4Frags(
                     [n |-> n, tgtMac |-> tgtMac, tgt_ip |-> tgt_ip, tgt_port |-> tgt_port,
                      src_port |-> src_port, data |-> data, data_len |-> dataLen,
                      ip_mfo |-> ip_mfo, links |-> links],
                     [n |-> 0, first_frag |-> TRUE, data_frag_start |-> 0,
                      data_frag_stop |-> ip_mfo - UDP_HDR_SIZE, ip_frag_offset |-> 0,
                      tx |-> <<>>, calls |-> 0])
    IN  IF tgtMac = NoMac
        THEN \* line 523 reads the undefined name pkt
             [n |-> n, tx |-> <<>>, ret |-> <<>>, exc |-> "NameError"]
        ELSE IF ip_totlen <= EthMTU
        THEN [n |-> [n EXCEPT !.ip4TxCount = @ + 1],
              tx |-> IF r >= 0 THEN <<f>> ELSE <<>>,
              ret |-> <<r>>, exc |-> "none"]
        ELSE [n |-> [n EXCEPT !.ip4TxCount = @ + 1],
              tx |-> frags.tx, ret |-> <<frags.n>>, exc |-> "none"]

\* a variant that leaves the identification counter alone
sendUdp4Bcast_NoCount(n, tgt_port, src_port, data, dataLen, link) ==
    LET r == SendPacket(FrameLen(dataLen), link)
        f == UdpFrame(ETH_ADDR_BCAST, MyMac, IP4_ADDR_ZERO, IP4_ADDR_BCAST,
                      n.ip4TxCount, src_port, tgt_port, data)
    IN  [n |-> n, tx |-> IF r >= 0 THEN <<f>> ELSE <<>>, ret |-> <<r>>, exc |-> "none"]

\* Ntw.sendUdp4Bcast with the default source address 0.0.0.0
sendUdp4Bcast(n, tgt_port, src_port, data, dataLen, link) ==
    LET r == SendPacket(FrameLen(dataLen), link)
        f == UdpFrame(ETH_ADDR_BCAST, MyMac, IP4_ADDR_ZERO, IP4_ADDR_BCAST,
                      n.ip4TxCount, src_port, tgt_port, data)
    IN  [n |-> [n EXCEPT !.ip4TxCount = @ + 1],
         tx |-> IF r >= 0 THEN <<f>> ELSE <<>>,
         ret |-> <<r>>, exc |-> "none"]

\* a variant that stores TCP handlers in the UDP unicast registry
registerTcp4Callback_Udp(n, port, cb) ==
    [n EXCEPT !.udp4UniBind = Register(@, port, cb)]

registerTcp4Callback(n, port, cb) ==
    [n EXCEPT !.tcp4UniBind = Register(@, port, cb)]

\* The handlers the applications register, named by what they do to the
\* registries while they run: "keep" leaves them (SntpClient.proc_response
\* outside state 2), "drop" removes its own entry (SntpClient.proc_response,
\* the DHCP client on an ACK), "swap" replaces its entry by "keep", "move"
\* removes its entry and registers itself for the same port in the other
\* UDP registry.  "echo" is Udp4EchoServer, which leaves the registries and
\* answers: see Udp4Result.
Handlers == {"keep", "drop", "swap", "move"}

\* a variant in which the handler works on a copy of the registries
Invoke_Copy(n, cb, port, bcast) == n

\* cb(pkt), called from procUdp4 for the port and registry given
Invoke(n, cb, port, bcast) ==
    LET reg(m, b, h) == IF b THEN registerUdp4BcastCallback(m, port, h)
                        ELSE registerUdp4Callback(m, port, h)
    IN  CASE cb = "drop" -> reg(n, bcast, "None")
          [] cb = "swap" -> reg(n, bcast, "keep")
          [] cb = "move" -> reg(reg(n, bcast, "None"), ~bcast, cb)
          [] OTHER -> n

\* a variant that trusts the checksum field
procUdp4Pkt_NoVerify(n, frame, offset, ip_src_addr, ip_dst_addr, bcast) ==
    LET udp_srcPort == frame[offset + 1] * 256 + frame[offset + 2]
        udp_dstPort == frame[offset + 3] * 256 + frame[offset + 4]
        udpLen == frame[offset + 5] * 256 + frame[offset + 6]
        stop == IF offset + udpLen < Len(frame) THEN offset + udpLen ELSE Len(frame)
        udp_data == SubSeq(frame, offset + UDP_HDR_SIZE + 1, stop)
        reg == IF bcast THEN n.udp4BcastBind ELSE n.udp4UniBind
    IN  IF udp_dstPort \notin DOMAIN reg THEN [n |-> n, calls |-> <<>>]
        ELSE [n |-> Invoke(n, reg[udp_dstPort], udp_dstPort, bcast),
              calls |-> << [cb |-> reg[udp_dstPort], bcast |-> bcast,
                            udp_srcPort |-> udp_srcPort, udp_dstPort |-> udp_dstPort,
                            udp_data |-> udp_data] >>]

\* procUdp4(pkt, bcast) for the datagram at offset of the frame: the
\* handler is looked up, then the checksum is verified unless the field is
\* 0, then the handler is called.  The result: the Ntw attributes after
\* the call and the handler calls made.
procUdp4Pkt(n, frame, offset, ip_src_addr, ip_dst_addr, bcast) ==
    LET udp_srcPort == frame[offset + 1] * 256 + frame[offset + 2]
        udp_dstPort == frame[offset + 3] * 256 + frame[offset + 4]
        udpLen == frame[offset + 5] * 256 + frame[offset + 6]
        chksm_rx == frame[offset + 7] * 256 + frame[offset + 8]
        stop == IF offset + udpLen < Len(frame) THEN offset + udpLen ELSE Len(frame)
        udp_data == SubSeq(frame, offset + UDP_HDR_SIZE + 1, stop)
        reg == IF bcast THEN n.udp4BcastBind ELSE n.udp4UniBind
        c == calcChecksum(udp_data,
                 Udp4PseudoSum(ip_src_addr, ip_dst_addr, udpLen, udp_srcPort, udp_dstPort))
        chksm == IF 0 = c THEN 65535 ELSE c
    IN  IF udp_dstPort \notin DOMAIN reg THEN [n |-> n, calls |-> <<>>]
        ELSE IF 0 # chksm_rx /\ chksm # chksm_rx THEN [n |-> n, calls |-> <<>>]
        ELSE [n |-> Invoke(n, reg[udp_dstPort], udp_dstPort, bcast),
              calls |-> << [cb |-> reg[udp_dstPort], bcast |-> bcast,
                            udp_srcPort |-> udp_srcPort, udp_dstPort |-> udp_dstPort,
                            udp_data |-> udp_data] >>]

\* makeTcp4Hdr without options: the header of struct.pack('!HHIIHHHH', ...)
\* with the checksum of the pseudo-header, the header and the data
makeTcp4Hdr(srcIp, srcPort, dstIp, dstPort, data, tcp_seq_num, tcp_ack_num, flags, tcp_window_size) ==
    LET tcpHdrLen == TCP_HDR_NOOPT_SIZE
        do_flags == BitAnd(61440, tcpHdrLen * 1024) + BitAnd(511, flags)
        tcpLen == tcpHdrLen + Len(data)
        hdr == << srcPort \div 256, srcPort % 256, dstPort \div 256, dstPort % 256,
                  tcp_seq_num \div 16777216, (tcp_seq_num \div 65536) % 256,
                  (tcp_seq_num \div 256) % 256, tcp_seq_num % 256,
                  tcp_ack_num \div 16777216, (tcp_ack_num \div 65536) % 256,
                  (tcp_ack_num \div 256) % 256, tcp_ack_num % 256,
                  do_flags \div 256, do_flags % 256,
                  tcp_window_size \div 256, tcp_window_size % 256, 0, 0, 0, 0 >>
        chksm == calcChecksum(data,
                     srcIp[1] * 256 + srcIp[2] + srcIp[3] * 256 + srcIp[4]
                     + dstIp[1] * 256 + dstIp[2] + dstIp[3] * 256 + dstIp[4]
                     + IP4_TYPE_TCP + tcpLen + WordSum(hdr))
    IN  [hdr EXCEPT ![17] = (chksm \div 256) % 256, ![18] = chksm % 256]

\* Ntw.sendTcp4 with the default window size and no options; the segment
\* is not fragmented
sendTcp4(n, tgt_ip, tgt_port, src_port, data, tcp_seq_num, tcp_ack_num, flags, link) ==
    LET tgtMac == IF isLocalIp4(n, tgt_ip) THEN getArpEntry(n, tgt_ip)
                  ELSE getArpEntry(n, n.gwIp4Addr)
        ip == makeIp4Hdr(n.myIp4Addr, tgt_ip, n.ip4TxCount, IP4_TYPE_TCP,
                         TCP_HDR_NOOPT_SIZE + Len(data), 0, 0)
        tcp == makeTcp4Hdr(n.myIp4Addr, src_port, tgt_ip, tgt_port, data,
                           tcp_seq_num, tcp_ack_num, flags, 1024)
        r == SendPacket(ETH_HDR_SIZE + Len(ip) + Len(tcp) + Len(data), link)
    IN  IF tgtMac = NoMac
        THEN \* line 602 reads the undefined name pkt
             [n |-> n, tx |-> <<>>, ret |-> <<>>, exc |-> "NameError"]
        ELSE [n |-> [n EXCEPT !.ip4TxCount = @ + 1],
              tx |-> IF r >= 0 THEN <<FragFrame(tgtMac, MyMac, ip, tcp \o data)>> ELSE <<>>,
              ret |-> <<r>>, exc |-> "none"]

\* sendIcmp4EchoReply(pkt): the message, frame[ip_offset:ip_maxoffset], is
\* copied, its type, code and checksum are set to 0 and the checksum is
\* computed; the reply goes to the Ethernet source of the request.  The
\* assignments to icmpRepl[0..3] raise IndexError for a copy of fewer than
\* 4 bytes, before anything else is done.  The result: the Ntw attributes
\* after the call, the frames the NIC accepted and the exception raised.
sendIcmp4EchoReply(n, frame, ip_offset, ip_maxoffset, ip_src_addr, eth_src, link) ==
    LET icmp == Slice(frame, ip_offset, ip_maxoffset)
        zeroed == [icmp EXCEPT ![1] = ICMP4_ECHO_REPLY, ![2] = 0, ![3] = 0, ![4] = 0]
        chksm == calcChecksum(zeroed, 0)
        icmpRepl == [zeroed EXCEPT ![3] = (chksm \div 256) % 256, ![4] = chksm % 256]
        ipHdr == makeIp4Hdr(n.myIp4Addr, ip_src_addr, n.ip4TxCount, IP4_TYPE_ICMP,
                            Len(icmpRepl), 0, 0)
        r == SendPacket(ETH_HDR_SIZE + Len(ipHdr) + Len(icmpRepl), link)
    IN  IF Len(icmp) < 4
        THEN [n |-> n, tx |-> <<>>, calls |-> <<>>, exc |-> "IndexError"]
        ELSE [n |-> [n EXCEPT !.ip4TxCount = @ + 1],
              tx |-> IF r >= 0 THEN <<FragFrame(eth_src, MyMac, ipHdr, icmpRepl)>> ELSE <<>>,
              calls |-> <<>>, exc |-> "none"]

\* procIcmp4(pkt): an echo request is answered, other types are logged
procIcmp4(n, frame, ip_offset, ip_maxoffset, ip_src_addr, eth_src, link) ==
    LET icmpType == frame[ip_offset + 1]
    IN  IF ICMP4_ECHO_REQUEST = icmpType
        THEN sendIcmp4EchoReply(n, frame, ip_offset, ip_maxoffset, ip_src_addr, eth_src, link)
        ELSE [n |-> n, tx |-> <<>>, calls |-> <<>>, exc |-> "none"]

\* procTcp4(pkt): the handler of the destination port is called when the
\* checksum over the pseudo-header and the segment is 0
procTcp4Pkt(n, frame, offset, ip_maxoffset, ip_src_addr, ip_dst_addr) ==
    LET tcp_srcPort == frame[offset + 1] * 256 + frame[offset + 2]
        tcp_dstPort == frame[offset + 3] * 256 + frame[offset + 4]
        tcpLen == ip_maxoffset - offset
        chksm == calcChecksum(Slice(frame, offset, ip_maxoffset),
                     ip_src_addr[1] * 256 + ip_src_addr[2] + ip_src_addr[3] * 256 + ip_src_addr[4]
                     + ip_dst_addr[1] * 256 + ip_dst_addr[2] + ip_dst_addr[3] * 256 + ip_dst_addr[4]
                     + IP4_TYPE_TCP + tcpLen)
    IN  IF tcp_dstPort \notin DOMAIN n.tcp4UniBind THEN [n |-> n, tx |-> <<>>, calls |-> <<>>, exc |-> "none"]
        ELSE IF 0 # chksm THEN [n |-> n, tx |-> <<>>, calls |-> <<>>, exc |-> "none"]
        ELSE [n |-> n, tx |-> <<>>,
              calls |-> << [cb |-> n.tcp4UniBind[tcp_dstPort], bcast |-> FALSE,
                            tcp_srcPort |-> tcp_srcPort, tcp_dstPort |-> tcp_dstPort] >>,
              exc |-> "none"]

\* Udp4EchoServer.__call__(pkt): the sender of the datagram is entered in
\* the ARP table and the data sent back to its port from the port it came
\* to; call is the handler call procUdp4 made, links the link states the
\* SendPacket calls of sendUdp4 read, one per frame
Udp4EchoServer(n, ip_src_addr, eth_src, call, links) ==
    sendUdp4(addArpEntry(n, ip_src_addr, eth_src), ip_src_addr, call.udp_srcPort,
             call.udp_data, Len(call.udp_data), call.udp_dstPort, links)

\* procUdp4 called from procIp4: the handlers that only read the packet or
\* change the registries transmit nothing, the echo server answers
Udp4Result(u, ip_src_addr, eth_src, links) ==
    IF u.calls # <<>> /\ u.calls[1].cb = "echo"
    THEN LET s == Udp4EchoServer(u.n, ip_src_addr, eth_src, u.calls[1], links)
         IN  [n |-> s.n, tx |-> s.tx, calls |-> u.calls, exc |-> s.exc]
    ELSE [n |-> u.n, tx |-> <<>>, calls |-> u.calls, exc |-> "none"]

\* a variant that looks every UDP datagram up in the unicast registry
procIp4_Unicast(n, frame, eth_src, links) ==
    LET ip_ver == (frame[1] \div 16) % 16
        ip_hdrlen == (frame[1] % 16) * 4
        ip_flags_fragoffset == frame[7] * 256 + frame[8]
        ip_proto == frame[10]
        ip_src_addr == SubSeq(frame, 13, 16)
        ip_dst_addr == SubSeq(frame, 17, 20)
    IN  IF 4 # ip_ver \/ IP4_HDR_NOOPT_SIZE # ip_hdrlen \/ ip_flags_fragoffset % 16384 # 0
        THEN [n |-> n, tx |-> <<>>, calls |-> <<>>, exc |-> "none"]
        ELSE IF ip_dst_addr \in {n.myIp4Addr, IP4_ADDR_BCAST} /\ IP4_TYPE_UDP = ip_proto
        THEN Udp4Result(procUdp4Pkt(n, frame, ip_hdrlen, ip_src_addr, ip_dst_addr, FALSE),
                             ip_src_addr, eth_src, links)
        ELSE [n |-> n, tx |-> <<>>, calls |-> <<>>, exc |-> "none"]

\* procIp4(pkt), frame being the receive buffer from pkt.eth_offset on,
\* eth_src the Ethernet source of the frame and links the link states the
\* SendPacket calls made meanwhile read, in the order of the calls:
\* versions other than 4, headers with options and
\* fragments are dropped; a datagram to the host's address goes to
\* procIcmp4, procTcp4 or procUdp4(pkt, bcast=False), a UDP datagram to
\* 255.255.255.255 to procUdp4(pkt, bcast=True).  The result: the Ntw
\* attributes after the call, the frames the NIC accepted, the handler
\* calls made and the exception raised.
procIp4(n, frame, eth_src, links) ==
    LET ip_ver == (frame[1] \div 16) % 16
        ip_hdrlen == (frame[1] % 16) * 4
        ip_totlen == frame[3] * 256 + frame[4]
        ip_flags_fragoffset == frame[7] * 256 + frame[8]
        ip_proto == frame[10]
        ip_src_addr == SubSeq(frame, 13, 16)
        ip_dst_addr == SubSeq(frame, 17, 20)
        flags_mf == (ip_flags_fragoffset \div 8192) % 2
        fragOffset == (ip_flags_fragoffset % 8192) * 8
        none == [n |-> n, tx |-> <<>>, calls |-> <<>>, exc |-> "none"]
    IN  IF 4 # ip_ver THEN none
        ELSE IF IP4_HDR_NOOPT_SIZE # ip_hdrlen THEN none
        ELSE IF 0 # flags_mf \/ 0 # fragOffset THEN none
        ELSE IF ip_dst_addr = n.myIp4Addr
        THEN IF IP4_TYPE_ICMP = ip_proto
             THEN procIcmp4(n, frame, ip_hdrlen, ip_totlen, ip_src_addr, eth_src, links[1])
             ELSE IF IP4_TYPE_TCP = ip_proto
             THEN procTcp4Pkt(n, frame, ip_hdrlen, ip_totlen, ip_src_addr, ip_dst_addr)
             ELSE IF IP4_TYPE_UDP = ip_proto
             THEN Udp4Result(procUdp4Pkt(n, frame, ip_hdrlen, ip_src_addr, ip_dst_addr, FALSE),
                             ip_src_addr, eth_src, links)
             ELSE none
        ELSE IF ip_dst_addr = IP4_ADDR_BCAST /\ IP4_TYPE_UDP = ip_proto
        THEN Udp4Result(procUdp4Pkt(n, frame, ip_hdrlen, ip_src_addr, ip_dst_addr, TRUE),
                             ip_src_addr, eth_src, links)
        ELSE none

\* a variant that names the requester as the sender of the reply
makeArpReply_Swapped(eth_dst, eth_src, ip_src, ip_dst) ==
    << eth_dst, eth_src, <<8, 6, 0, 1, 8, 0, 6, 4, 0, ARP_OP_REPLY>>,
       eth_dst, ip_dst, eth_src, ip_src >>

\* makeArpReply: the list of the parts of the frame, i.e. both Ethernet
\* addresses, the EtherType with the fixed ARP fields and the operation,
\* then sender MAC, sender IP, target MAC, target IP
makeArpReply(eth_dst, eth_src, ip_src, ip_dst) ==
    << eth_dst, eth_src,
       <<ETH_TYPE_ARP \div 256, ETH_TYPE_ARP % 256, 0, 1, 8, 0, 6, 4, 0, ARP_OP_REPLY>>,
       eth_src, ip_src, eth_dst, ip_dst >>

\* makeArpRequest: the list of the parts of the frame, i.e. the broadcast
\* address, the source address, the EtherType with the fixed ARP fields and
\* the operation, then sender MAC, sender IP, a zero target MAC, target IP
makeArpRequest(eth_src, ip_src, ip_dst) ==
    << ETH_ADDR_BCAST, eth_src,
       <<ETH_TYPE_ARP \div 256, ETH_TYPE_ARP % 256, 0, 1, 8, 0, 6, 4, 0, ARP_OP_REQUEST>>,
       eth_src, ip_src, <<0, 0, 0, 0, 0, 0>>, ip_dst >>

\* Ntw.sendArpRequest(ip4Addr): the frame the NIC accepted, if it did, and
\* the value txPkt returned
sendArpRequest(n, ip4Addr, link) ==
    LET r == SendPacket(ETH_HDR_SIZE + 28, link)
    IN  [n |-> n,
         tx |-> IF r >= 0 THEN <<makeArpRequest(MyMac, n.myIp4Addr, ip4Addr)>> ELSE <<>>,
         ret |-> <<r>>, exc |-> "none"]

\* Ntw.isConnectedIp4(ip4Addr)
isConnectedIp4(n, ip4Addr) ==
    IF isLocalIp4(n, ip4Addr) THEN getArpEntry(n, ip4Addr) # NoMac
    ELSE getArpEntry(n, n.gwIp4Addr) # NoMac

\* Ntw.connectIp4(ip4Addr): a local address is asked for, and so is the
\* gateway of another address unless it is resolved; it returns None
connectIp4(n, ip4Addr, link) ==
    IF isLocalIp4(n, ip4Addr)
    THEN [sendArpRequest(n, ip4Addr, link) EXCEPT !.ret = <<>>]
    ELSE IF ~isConnectedIp4(n, n.gwIp4Addr)
    THEN [sendArpRequest(n, n.gwIp4Addr, link) EXCEPT !.ret = <<>>]
    ELSE [n |-> n, tx |-> <<>>, ret |-> <<>>, exc |-> "none"]

\* Ntw.addArpEntry(ip, mac) for an ip of type int
addArpEntryInt(n, ip, mac) ==
    [n EXCEPT !.arpTable = [k \in (DOMAIN @) \cup {ip} |-> IF k = ip THEN mac ELSE @[k]]]

\* Ntw.getArpEntry(ip) for an ip of type int
getArpEntryInt(n, ip) ==
    IF ip \in DOMAIN n.arpTable THEN n.arpTable[ip] ELSE NoMac

\* procArp(pkt) for the ARP packet at eth_offset of the frame: a request
\* for the host's address is answered to the Ethernet source of the frame,
\* a reply is entered in the ARP table
procArp(n, frame, eth_offset, eth_src, link) ==
    LET oper == frame[eth_offset + 7] * 256 + frame[eth_offset + 8]
        sha == SubSeq(frame, eth_offset + 9, eth_offset + 14)
        spa == SubSeq(frame, eth_offset + 15, eth_offset + 18)
        tpa == SubSeq(frame, eth_offset + 25, eth_offset + 28)
        reply == makeArpReply(eth_src, MyMac, n.myIp4Addr, spa)
        r == SendPacket(ETH_HDR_SIZE + 28, link)
    IN  IF ARP_OP_REQUEST = oper
        THEN IF tpa = n.myIp4Addr
             THEN [n |-> n, tx |-> IF r >= 0 THEN <<reply>> ELSE <<>>, calls |-> <<>>, exc |-> "none"]
             ELSE [n |-> n, tx |-> <<>>, calls |-> <<>>, exc |-> "none"]
        ELSE IF ARP_OP_REPLY = oper
        THEN [n |-> addArpEntry(n, spa, sha), tx |-> <<>>, calls |-> <<>>, exc |-> "none"]
        ELSE [n |-> n, tx |-> <<>>, calls |-> <<>>, exc |-> "none"]

\* procEth(pkt): the EtherType is read at 12; for 0x8100 it is read again
\* at 14 and eth_offset becomes 16.  frame is the receive buffer up to the
\* last byte read.
procEth(n, frame, links) ==
    LET eth_src == SubSeq(frame, 7, 12)
        outer == frame[13] * 256 + frame[14]
        tagged == ETH_TYPE_8021Q = outer
        eth_type == IF tagged THEN frame[15] * 256 + frame[16] ELSE outer
        eth_offset == IF tagged THEN ETH_HDR_SIZE + 2 ELSE ETH_HDR_SIZE
    IN  IF ETH_TYPE_IP4 = eth_type
        THEN procIp4(n, SubSeq(frame, eth_offset + 1, Len(frame)), eth_src, links)
        ELSE IF ETH_TYPE_ARP = eth_type
        THEN procArp(n, frame, eth_offset, eth_src, links[1])
        ELSE [n |-> n, tx |-> <<>>, calls |-> <<>>, exc |-> "none"]

-----------------------------------------------------------------------------
(* Dhcp4Client.py: the messages the client builds *)

\* sizes of the packed messages (no hostname): 236 B header, 4 B magic
\* cookie, 2 + len per option, 1 B end option
DiscoverLen == 253
RequestOfferLen == 265
RequestRenewLen == 262

make_discover_msg(d) ==
    [op |-> DHCP4_OP_REQUEST, htype |-> 1, hlen |-> 6, xid |-> d.xid,
     flags |-> DHCP4_FLAG_BROADCAST, ciaddr |-> IP4_ADDR_ZERO, chaddr |-> MyMac,
     msgtype |-> DHCP4_MSG_TYPE_DISCOVER, req_ip |-> NoIp, server_id |-> NoIp,
     client_id |-> NoMac, maxmsgsize |-> EthMTU, param_req |-> <<1, 3, 6>>]

make_request_offer(d) ==
    [op |-> DHCP4_OP_REQUEST, htype |-> 1, hlen |-> 6, xid |-> d.xid,
     flags |-> DHCP4_FLAG_BROADCAST, ciaddr |-> IP4_ADDR_ZERO, chaddr |-> MyMac,
     msgtype |-> DHCP4_MSG_TYPE_REQUEST, req_ip |-> d.yiaddr, server_id |-> d.siaddr,
     client_id |-> NoMac, maxmsgsize |-> EthMTU, param_req |-> <<1, 3, 6>>]

\* a variant that sets the broadcast flag, as the other two messages do
make_request_renew_Bcast(d) ==
    [op |-> DHCP4_OP_REQUEST, htype |-> 1, hlen |-> 6, xid |-> d.xid,
     flags |-> DHCP4_FLAG_BROADCAST, ciaddr |-> d.yiaddr, chaddr |-> MyMac,
     msgtype |-> DHCP4_MSG_TYPE_REQUEST, req_ip |-> NoIp, server_id |-> NoIp,
     client_id |-> MyMac, maxmsgsize |-> EthMTU, param_req |-> <<1, 3, 6>>]

make_request_renew(d) ==
    [op |-> DHCP4_OP_REQUEST, htype |-> 1, hlen |-> 6, xid |-> d.xid,
     flags |-> 0, ciaddr |-> d.yiaddr, chaddr |-> MyMac,
     msgtype |-> DHCP4_MSG_TYPE_REQUEST, req_ip |-> NoIp, server_id |-> NoIp,
     client_id |-> MyMac, maxmsgsize |-> EthMTU, param_req |-> <<1, 3, 6>>]

-----------------------------------------------------------------------------
(* Dhcp4Client.py: the per-state loop() handlers.  Each yields the client  *)
(* and host attributes after the call, the frames sent and the exception.  *)

Outcome(d, n, tx, exc) == [d |-> d, n |-> n, tx |-> tx, exc |-> exc]

\* a variant that registers the handler for unicast datagrams
Init_loop_Unicast(d, n, t, link1, link2, x) ==
    IF ~link1 THEN Outcome(d, n, <<>>, "none")
    ELSE
        LET d1 == [d EXCEPT !.init_time = t, !.xid = x, !.renew_attemp_cnt = 0]
            s == sendUdp4Bcast(n, DHCP4_PORT_SERVER, DHCP4_PORT_CLIENT,
                               make_discover_msg(d1), DiscoverLen, link2)
        IN  IF 0 > s.ret[1]
            THEN Outcome(d1, s.n, s.tx, "none")
            ELSE Outcome([d1 EXCEPT !.state = "AwaitOffer"],
                         registerUdp4Callback(s.n, DHCP4_PORT_CLIENT, "dhcp"),
                         s.tx, "none")

\* ClientState_Init.loop.  link1: the IsLinkUp() read of line 167;
\* link2: the read inside SendPacket; x: random.getrandbits(32)
Init_loop(d, n, t, link1, link2, x) ==
    IF ~link1 THEN Outcome(d, n, <<>>, "none")
    ELSE
        LET d1 == [d EXCEPT !.init_time = t, !.xid = x, !.renew_attemp_cnt = 0]
            s == sendUdp4Bcast(n, DHCP4_PORT_SERVER, DHCP4_PORT_CLIENT,
                               make_discover_msg(d1), DiscoverLen, link2)
        IN  IF 0 > s.ret[1]
            THEN Outcome(d1, s.n, s.tx, "none")
            ELSE Outcome([d1 EXCEPT !.state = "AwaitOffer"],
                         registerUdp4BcastCallback(s.n, DHCP4_PORT_CLIENT, "dhcp"),
                         s.tx, "none")

\* ClientState_AwaitOffer.loop
AwaitOffer_loop(d, n, t) ==
    IF t - d.init_time > AwaitOfferTimeout
    THEN Outcome([d EXCEPT !.state = "Init"], n, <<>>, "none")
    ELSE Outcome(d, n, <<>>, "none")

\* a variant with the timeout of AwaitOffer
Selecting_loop_Short(d, n, t) ==
    IF t - d.init_time > AwaitOfferTimeout
    THEN Outcome([d EXCEPT !.state = "Init"], n, <<>>, "none")
    ELSE Outcome(d, n, <<>>, "none")

\* ClientState_Selecting.loop
Selecting_loop(d, n, t) ==
    IF t - d.init_time > SelectingTimeout
    THEN Outcome([d EXCEPT !.state = "Init"], n, <<>>, "none")
    ELSE Outcome(d, n, <<>>, "none")

\* ClientState_Bound.loop
Bound_loop(d, n, t) ==
    IF t - d.bound_time > d.renewal_seconds
    THEN Outcome([d EXCEPT !.renew_attemp_cnt = 0, !.state = "RenewingInit"],
                 n, <<>>, "none")
    ELSE Outcome(d, n, <<>>, "none")

\* ClientState_RenewingInit.loop after the request was handed to sendUdp4:
\* d1 is the client with its new init_time and xid, s the result of the send
RenewingInit_sent(d1, s) ==
    IF s.exc # "none" THEN Outcome(d1, s.n, s.tx, s.exc)
    ELSE IF 0 > s.ret[1]
    THEN Outcome([d1 EXCEPT !.state = "Init"], s.n, s.tx, "none")
    ELSE Outcome([d1 EXCEPT !.renew_attemp_cnt = @ + 1, !.state = "Renewing"],
                 registerUdp4Callback(s.n, DHCP4_PORT_CLIENT, "dhcp"),
                 s.tx, "none")

\* ClientState_RenewingInit.loop
RenewingInit_loop(d, n, t, link, x) ==
    LET d1 == [d EXCEPT !.init_time = t, !.xid = x]
    IN  RenewingInit_sent(d1,
            sendUdp4(n, d1.siaddr, DHCP4_PORT_SERVER, make_request_renew(d1),
                     RequestRenewLen, DHCP4_PORT_CLIENT, <<link>>))

\* a variant that drops the host's configuration when it falls back
Renewing_loop_Unset(d, n, t) ==
    IF \/ t - d.bound_time > d.rebinding_seconds
       \/ t - d.bound_time > d.lease_seconds
       \/ MaxRenewAttempts < d.renew_attemp_cnt
    THEN Outcome([d EXCEPT !.state = "Init"], [n EXCEPT !.configIp4Done = FALSE], <<>>, "none")
    ELSE IF t - d.init_time > RenewingRetryTimeout
    THEN Outcome([d EXCEPT !.state = "RenewingInit"], n, <<>>, "none")
    ELSE Outcome(d, n, <<>>, "none")

\* a variant that gives up at the third attempt
Renewing_loop_Early(d, n, t) ==
    IF \/ t - d.bound_time > d.rebinding_seconds
       \/ t - d.bound_time > d.lease_seconds
       \/ MaxRenewAttempts <= d.renew_attemp_cnt
    THEN Outcome([d EXCEPT !.state = "Init"], n, <<>>, "none")
    ELSE IF t - d.init_time > RenewingRetryTimeout
    THEN Outcome([d EXCEPT !.state = "RenewingInit"], n, <<>>, "none")
    ELSE Outcome(d, n, <<>>, "none")

\* ClientState_Renewing.loop
Renewing_loop(d, n, t) ==
    IF \/ t - d.bound_time > d.rebinding_seconds
       \/ t - d.bound_time > d.lease_seconds
       \/ MaxRenewAttempts < d.renew_attemp_cnt
    THEN Outcome([d EXCEPT !.state = "Init"], n, <<>>, "none")
    ELSE IF t - d.init_time > RenewingRetryTimeout
    THEN Outcome([d EXCEPT !.state = "RenewingInit"], n, <<>>, "none")
    ELSE Outcome(d, n, <<>>, "none")

-----------------------------------------------------------------------------
(* Dhcp4Client.py: the per-state proc_rx_pkt handlers.  msg is the         *)
(* unpacked Dhcp4Packet of the datagram together with pkt.eth_src; an      *)
(* absent option is NoInt or NoIp.                                         *)

\* a variant without the transaction id check
HeaderOkAnyXid(d, msg) ==
    /\ DHCP4_OP_REPLY = msg.op
    /\ ~(1 # msg.htype \/ 6 # msg.hlen \/ MyMac # msg.chaddr)

\* the three header checks every receiving state makes, in order
HeaderOk(d, msg) ==
    /\ DHCP4_OP_REPLY = msg.op
    /\ d.xid = msg.xid
    /\ ~(1 # msg.htype \/ 6 # msg.hlen \/ MyMac # msg.chaddr)

\* the timers set on an ACK: lines 289-301 and 406-418
SetTimers(d, msg, t) ==
    LET lease == IF msg.lease # NoInt THEN msg.lease ELSE DefaultLeaseSeconds
    IN  [d EXCEPT !.bound_time = t,
                  !.lease_seconds = lease,
                  !.renewal_seconds =
                      IF msg.t1 # NoInt THEN msg.t1 ELSE PyRound(lease, 2),
                  !.rebinding_seconds =
                      IF msg.t2 # NoInt THEN msg.t2 ELSE PyRound(7 * lease, 8)]

\* the host configuration installed on an ACK: lines 274-281 and 391-398
InstallLease(d, n, msg) ==
    LET n1 == setIPv4(n, d.yiaddr, msg.mask, msg.router)
        n2 == addArpEntry(n1, d.siaddr, msg.eth_src)
    IN  IF msg.dns # NoIp THEN setDnsSrvIpv4(n2, msg.dns) ELSE n2

\* ClientState_AwaitOffer.proc_rx_pkt; link: the read inside SendPacket
AwaitOffer_proc_rx_pkt(d, n, msg, link) ==
    IF ~HeaderOk(d, msg) THEN Outcome(d, n, <<>>, "none")
    ELSE IF msg.msgtype = NoInt THEN Outcome(d, n, <<>>, "KeyError")
    ELSE IF DHCP4_MSG_TYPE_OFFER # msg.msgtype
    THEN Outcome([d EXCEPT !.state = "Init"], n, <<>>, "none")
    ELSE
        LET d1 == [d EXCEPT !.yiaddr = msg.yiaddr, !.siaddr = msg.siaddr]
            s == sendUdp4Bcast(n, DHCP4_PORT_SERVER, DHCP4_PORT_CLIENT,
                               make_request_offer(d1), RequestOfferLen, link)
        IN  IF 0 > s.ret[1]
            THEN Outcome([d1 EXCEPT !.state = "Init"], s.n, s.tx, "none")
            ELSE Outcome([d1 EXCEPT !.state = "Selecting"], s.n, s.tx, "none")

\* a variant that ignores a message of another type
Selecting_proc_rx_pkt_Ignore(d, n, msg, t) ==
    IF ~HeaderOk(d, msg) THEN Outcome(d, n, <<>>, "none")
    ELSE IF msg.msgtype = NoInt THEN Outcome(d, n, <<>>, "KeyError")
    ELSE IF DHCP4_MSG_TYPE_ACK # msg.msgtype
    THEN Outcome(d, n, <<>>, "none")
    ELSE
        LET d1 == [d EXCEPT !.yiaddr = msg.yiaddr, !.siaddr = msg.siaddr]
        IN  IF msg.mask = NoIp \/ msg.router = NoIp
            THEN Outcome(d1, n, <<>>, "KeyError")
            ELSE Outcome([SetTimers(d1, msg, t) EXCEPT !.state = "Bound"],
                         registerUdp4BcastCallback(InstallLease(d1, n, msg),
                                                   DHCP4_PORT_CLIENT, "None"),
                         <<>>, "none")

\* ClientState_Selecting.proc_rx_pkt
Selecting_proc_rx_pkt(d, n, msg, t) ==
    IF ~HeaderOk(d, msg) THEN Outcome(d, n, <<>>, "none")
    ELSE IF msg.msgtype = NoInt THEN Outcome(d, n, <<>>, "KeyError")
    ELSE IF DHCP4_MSG_TYPE_ACK # msg.msgtype
    THEN Outcome([d EXCEPT !.state = "Init"], n, <<>>, "none")
    ELSE
        LET d1 == [d EXCEPT !.yiaddr = msg.yiaddr, !.siaddr = msg.siaddr]
        IN  IF msg.mask = NoIp \/ msg.router = NoIp
            THEN Outcome(d1, n, <<>>, "KeyError")
            ELSE Outcome([SetTimers(d1, msg, t) EXCEPT !.state = "Bound"],
                         registerUdp4BcastCallback(InstallLease(d1, n, msg),
                                                   DHCP4_PORT_CLIENT, "None"),
                         <<>>, "none")

\* a variant that removes the broadcast handler, as Selecting does
Renewing_proc_rx_pkt_Bcast(d, n, msg, t) ==
    IF ~HeaderOk(d, msg) THEN Outcome(d, n, <<>>, "none")
    ELSE IF msg.msgtype = NoInt THEN Outcome(d, n, <<>>, "KeyError")
    ELSE IF DHCP4_MSG_TYPE_ACK # msg.msgtype
    THEN Outcome([d EXCEPT !.state = "Init"], n, <<>>, "none")
    ELSE
        LET d1 == [d EXCEPT !.yiaddr = msg.yiaddr, !.siaddr = msg.siaddr]
        IN  IF msg.mask = NoIp \/ msg.router = NoIp
            THEN Outcome(d1, n, <<>>, "KeyError")
            ELSE Outcome([SetTimers(d1, msg, t) EXCEPT !.state = "Bound"],
                         registerUdp4BcastCallback(InstallLease(d1, n, msg),
                                                   DHCP4_PORT_CLIENT, "None"),
                         <<>>, "none")

\* ClientState_Renewing.proc_rx_pkt
Renewing_proc_rx_pkt(d, n, msg, t) ==
    IF ~HeaderOk(d, msg) THEN Outcome(d, n, <<>>, "none")
    ELSE IF msg.msgtype = NoInt THEN Outcome(d, n, <<>>, "KeyError")
    ELSE IF DHCP4_MSG_TYPE_ACK # msg.msgtype
    THEN Outcome([d EXCEPT !.state = "Init"], n, <<>>, "none")
    ELSE
        LET d1 == [d EXCEPT !.yiaddr = msg.yiaddr, !.siaddr = msg.siaddr]
        IN  IF msg.mask = NoIp \/ msg.router = NoIp
            THEN Outcome(d1, n, <<>>, "KeyError")
            ELSE Outcome([SetTimers(d1, msg, t) EXCEPT !.state = "Bound"],
                         registerUdp4Callback(InstallLease(d1, n, msg),
                                              DHCP4_PORT_CLIENT, "None"),
                         <<>>, "none")

\* Dhcp4Client.proc_rx_pkt: the current state's handler.  Init and Bound
\* inherit ClientState_Base.proc_rx_pkt, RenewingInit passes.
proc_rx_pkt(d, n, msg, t, link) ==
    CASE d.state = "AwaitOffer" -> AwaitOffer_proc_rx_pkt(d, n, msg, link)
      [] d.state = "Selecting" -> Selecting_proc_rx_pkt(d, n, msg, t)
      [] d.state = "Renewing" -> Renewing_proc_rx_pkt(d, n, msg, t)
      [] OTHER -> Outcome(d, n, <<>>, "none")

\* a variant in which the state entered from Bound is run in the same call
loop_Chained(d, n, t, link1, link2, x) ==
    CASE d.state = "Init" -> Init_loop(d, n, t, link1, link2, x)
      [] d.state = "AwaitOffer" -> AwaitOffer_loop(d, n, t)
      [] d.state = "Selecting" -> Selecting_loop(d, n, t)
      [] d.state = "Bound" ->
            LET o == Bound_loop(d, n, t)
            IN  IF o.d.state = "RenewingInit"
                THEN RenewingInit_loop(o.d, o.n, t, TRUE, 1)
                ELSE o
      [] d.state = "RenewingInit" -> RenewingInit_loop(d, n, t, link2, x)
      [] d.state = "Renewing" -> Renewing_loop(d, n, t)

\* Dhcp4Client.loop: the current state's loop()
loop(d, n, t, link1, link2, x) ==
    CASE d.state = "Init" -> Init_loop(d, n, t, link1, link2, x)
      [] d.state = "AwaitOffer" -> AwaitOffer_loop(d, n, t)
      [] d.state = "Selecting" -> Selecting_loop(d, n, t)
      [] d.state = "Bound" -> Bound_loop(d, n, t)
      [] d.state = "RenewingInit" -> RenewingInit_loop(d, n, t, link2, x)
      [] d.state = "Renewing" -> Renewing_loop(d, n, t)

\* procIp4 / procUdp4 for a UDP datagram to port 68 with a zero or valid
\* checksum: the registry is chosen by the destination address (bcast:
\* 255.255.255.255, otherwise the host's address) and the handler, if any,
\* is called
procUdp4(d, n, msg, bcast, t, link) ==
    LET reg == IF bcast THEN n.udp4BcastBind ELSE n.udp4UniBind
    IN  IF DHCP4_PORT_CLIENT \notin DOMAIN reg
        THEN Outcome(d, n, <<>>, "none")
        ELSE proc_rx_pkt(d, n, msg, t, link)

-----------------------------------------------------------------------------
(* The received messages the model draws from *)

BaseMsg(x, ty, y, s) ==
    [op |-> DHCP4_OP_REPLY, xid |-> x, htype |-> 1, hlen |-> 6, chaddr |-> MyMac,
     yiaddr |-> y, siaddr |-> s, msgtype |-> ty,
     mask |-> Mask24, router |-> SrvLocal, dns |-> NoIp,
     lease |-> NoInt, t1 |-> NoInt, t2 |-> NoInt, eth_src |-> SrvMac]

\* The replies sent to a client whose transaction id is x.

\* OFFERs of either address
OfferMsgs(x) == {BaseMsg(x, DHCP4_MSG_TYPE_OFFER, y, SrvLocal) : y \in {Y1, Y2}}

\* a NAK, and a reply without option 53
OtherTypeMsgs(x) == {BaseMsg(x, ty, Y1, SrvLocal) : ty \in {NoInt, DHCP4_MSG_TYPE_NAK}}

\* options 51, 58, 59 of the ACKs: every lease without T1 and T2, T1 and
\* T2 present or not without a lease, and all three
LeaseOptions ==
    {<<l, NoInt, NoInt>> : l \in 0..MaxLease}
    \cup {<<NoInt, a, b>> : a \in {NoInt, T1Opt}, b \in {NoInt, T2Opt}}
    \cup {<<1, T1Opt, T2Opt>>}

\* ACKs of the local server with these options, and one of the remote server
AckMsgs(x) ==
    {[BaseMsg(x, DHCP4_MSG_TYPE_ACK, Y1, SrvLocal)
        EXCEPT !.lease = o[1], !.t1 = o[2], !.t2 = o[3]] : o \in LeaseOptions}
    \cup {[BaseMsg(x, DHCP4_MSG_TYPE_ACK, Y1, SrvRemote) EXCEPT !.t1 = T1Opt]}

\* replies of type ty with one header field wrong: op, xid, htype, hlen, chaddr
BadHeaderMsgs(x, ty) ==
    {[BaseMsg(x, ty, Y2, SrvLocal) EXCEPT !.op = DHCP4_OP_REQUEST],
     BaseMsg(StaleXid, ty, Y2, SrvLocal),
     [BaseMsg(x, ty, Y2, SrvLocal) EXCEPT !.htype = 6],
     [BaseMsg(x, ty, Y2, SrvLocal) EXCEPT !.hlen = 16],
     [BaseMsg(x, ty, Y2, SrvLocal) EXCEPT !.chaddr = OtherMac]}

\* ACKs without option 1, without option 3, with option 6
OptionMsgs(x) ==
    {[BaseMsg(x, DHCP4_MSG_TYPE_ACK, Y2, SrvLocal) EXCEPT !.mask = NoIp],
     [BaseMsg(x, DHCP4_MSG_TYPE_ACK, Y2, SrvLocal) EXCEPT !.router = NoIp],
     [BaseMsg(x, DHCP4_MSG_TYPE_ACK, Y2, SrvLocal) EXCEPT !.dns = DnsIp]}

\* The replies delivered to a client in state st: while it awaits an
\* OFFER, where no option of an ACK is read, the ACKs are represented by
\* one; while it awaits an ACK, by all of them
Messages(st, x) ==
    IF st = "AwaitOffer"
    THEN OfferMsgs(x) \cup OtherTypeMsgs(x)
         \cup {BaseMsg(x, DHCP4_MSG_TYPE_ACK, Y1, SrvLocal)}
         \cup BadHeaderMsgs(x, DHCP4_MSG_TYPE_OFFER)
    ELSE OfferMsgs(x) \cup OtherTypeMsgs(x) \cup AckMsgs(x) \cup OptionMsgs(x)
         \cup BadHeaderMsgs(x, DHCP4_MSG_TYPE_ACK)

\* Dhcp4Packet.__init__: a request with transaction id 0, a zero chaddr, the
\* addresses 0.0.0.0 and no option; it has no eth_src (that is of the frame)
NoMsg ==
    [op |-> DHCP4_OP_REQUEST, xid |-> 0, htype |-> 1, hlen |-> 6,
     chaddr |-> "00:00:00:00:00:00", yiaddr |-> IP4_ADDR_ZERO, siaddr |-> IP4_ADDR_ZERO,
     msgtype |-> NoInt, mask |-> NoIp, router |-> NoIp, dns |-> NoIp,
     lease |-> NoInt, t1 |-> NoInt, t2 |-> NoInt, eth_src |-> NoMac]

-----------------------------------------------------------------------------
(* The state machine *)

EmptyMap == [k \in {} |-> "None"]

\* Dhcp4Client.__init__: only the state is assigned
DhcpInit ==
    [state |-> "Init", xid |-> NoInt, yiaddr |-> NoIp, siaddr |-> NoIp,
     init_time |-> NoInt, bound_time |-> NoInt, lease_seconds |-> NoInt,
     renewal_seconds |-> NoInt, rebinding_seconds |-> NoInt,
     renew_attemp_cnt |-> NoInt]

\* Ntw.__init__
NtwInit ==
    [myIp4Addr |-> IP4_ADDR_ZERO, netIp4Mask |-> IP4_ADDR_ZERO,
     gwIp4Addr |-> IP4_ADDR_ZERO, configIp4Done |-> FALSE, dnsSrv4Addr |-> NoIp,
     ip4TxCount |-> 0, arpTable |-> EmptyMap,
     udp4UniBind |-> EmptyMap, udp4BcastBind |-> EmptyMap, tcp4UniBind |-> EmptyMap]

\* the record of an operation: its name, the DHCP state it started in, its
\* inputs (those it did not read are left at their defaults), what it
\* returned (<<>>: nothing, or it raised) and the exception it raised
Op(name, link1, link2, x, msg, bcast, dst, ret, exc) ==
    [op |-> name, from |-> dhcp.state, link1 |-> link1, link2 |-> link2, x |-> x,
     msg |-> msg, bcast |-> bcast, dst |-> dst, ret |-> ret, exc |-> exc]

Init ==
    /\ dhcp = DhcpInit
    /\ ntw = NtwInit
    /\ nic = NicInit(ENC28J60_RX_BUFFER_START)
    /\ now = 0
    /\ txFrames = <<>>
    /\ last = [op |-> "init", from |-> "Init", link1 |-> FALSE, link2 |-> FALSE,
               x |-> NoInt, msg |-> NoMsg, bcast |-> FALSE, dst |-> NoIp,
               ret |-> <<>>, exc |-> "none"]

\* the clock advances
Tick ==
    /\ now < MaxTime
    /\ now' = now + 1
    /\ last' = Op("Tick", FALSE, FALSE, NoInt, NoMsg, FALSE, NoIp, <<>>, "none")
    /\ txFrames' = <<>>
    /\ UNCHANGED <<dhcp, ntw, nic>>

\* one call of Dhcp4Client.loop() with the inputs it reads
LoopStep(link1, link2, x) ==
    LET o == loop(dhcp, ntw, now, link1, link2, x)
    IN  /\ dhcp' = o.d
        /\ ntw' = o.n
        /\ txFrames' = o.tx
        /\ last' = Op("loop", link1, link2, x, NoMsg, FALSE, NoIp, <<>>, o.exc)
        /\ UNCHANGED <<now, nic>>

\* The IPv4 identification counter grows with every send: the actions that
\* send are enabled while it stays within maxTx.

InitLoopLinkDown ==
    /\ dhcp.state = "Init"
    /\ LoopStep(FALSE, FALSE, NoInt)

InitLoopLinkUpWithin(maxTx) ==
    /\ dhcp.state = "Init"
    /\ \E link2 \in BOOLEAN, x \in Xids : LoopStep(TRUE, link2, x)
    /\ ntw'.ip4TxCount <= maxTx

InitLoopLinkUp == InitLoopLinkUpWithin(MaxTx)

AwaitOfferLoop ==
    /\ dhcp.state = "AwaitOffer"
    /\ LoopStep(FALSE, FALSE, NoInt)

SelectingLoop ==
    /\ dhcp.state = "Selecting"
    /\ LoopStep(FALSE, FALSE, NoInt)

BoundLoop ==
    /\ dhcp.state = "Bound"
    /\ LoopStep(FALSE, FALSE, NoInt)

RenewingInitLoopWithin(maxTx) ==
    /\ dhcp.state = "RenewingInit"
    /\ \E link2 \in BOOLEAN, x \in Xids : LoopStep(FALSE, link2, x)
    /\ ntw'.ip4TxCount <= maxTx

RenewingInitLoop == RenewingInitLoopWithin(MaxTx)

RenewingLoop ==
    /\ dhcp.state = "Renewing"
    /\ LoopStep(FALSE, FALSE, NoInt)

\* the states whose proc_rx_pkt unpacks the datagram
RxStates == {"AwaitOffer", "Selecting", "Renewing"}

HandlerBound(bcast) ==
    DHCP4_PORT_CLIENT \in DOMAIN (IF bcast THEN ntw.udp4BcastBind ELSE ntw.udp4UniBind)

\* rxAllPkt delivers one UDP datagram for port 68 up the stack, to a
\* client that reads it.  link: the IsLinkUp() read of SendPacket, if made
RxDhcpWithin(maxTx) ==
    /\ dhcp.state \in RxStates
    /\ \E msg \in Messages(dhcp.state, dhcp.xid), bcast \in BOOLEAN, link \in BOOLEAN :
        LET o == procUdp4(dhcp, ntw, msg, bcast, now, link)
        IN  /\ HandlerBound(bcast)
            /\ link => o.tx # <<>>
            /\ o.n.ip4TxCount <= maxTx
            /\ dhcp' = o.d
            /\ ntw' = o.n
            /\ txFrames' = o.tx
            /\ last' = Op("rx", FALSE, link, NoInt, msg, bcast, NoIp, <<>>, o.exc)
            /\ UNCHANGED <<now, nic>>

RxDhcp == RxDhcpWithin(MaxTx)

\* the same, when no handler is registered for the destination or the
\* client's state does not read the datagram
RxDhcpUnread ==
    \E bcast \in BOOLEAN :
        LET o == procUdp4(dhcp, ntw, BaseMsg(dhcp.xid, DHCP4_MSG_TYPE_ACK, Y1, SrvLocal), bcast, now, FALSE)
        IN  /\ ~(HandlerBound(bcast) /\ dhcp.state \in RxStates)
            /\ dhcp' = o.d
            /\ ntw' = o.n
            /\ txFrames' = o.tx
            /\ last' = Op("rxUnread", FALSE, FALSE, NoInt, NoMsg, bcast, NoIp, <<>>, o.exc)
            /\ UNCHANGED <<now, nic>>

Next ==
    \/ Tick
    \/ InitLoopLinkDown
    \/ InitLoopLinkUp
    \/ AwaitOfferLoop
    \/ SelectingLoop
    \/ BoundLoop
    \/ RenewingInitLoop
    \/ RenewingLoop
    \/ RxDhcp
    \/ RxDhcpUnread

Spec == Init /\ [][Next]_vars

-----------------------------------------------------------------------------
(* TickSpec: one loop() tick of a client in any state.                     *)
(*                                                                         *)
(* The initial states are clients the program reaches, with the lease      *)
(* bound at time 0:                                                        *)
(*   Init, AwaitOffer, Selecting: a client that never held a lease; the    *)
(*     DISCOVER was sent at init_time and the attempt counter reset; in    *)
(*     Selecting the offered address and the server are recorded;          *)
(*   Bound: the lease of a first acquisition, T1, T2 and the lease time    *)
(*     as the server chose them;                                           *)
(*   RenewingInit: entered from Bound after T1 (counter 0), or from        *)
(*     Renewing more than 5 s after attempt number cnt, by a tick that     *)
(*     came no later than T2 and the end of the lease;                     *)
(*   Renewing: attempt cnt (1..4) was sent at init_time, which is after    *)
(*     T1 and more than 5 s after each earlier attempt; a retry (cnt > 1)  *)
(*     was asked for no later than T2 and the end of the lease.            *)
(* The host is the one these clients run on: see HostOf.                   *)

TickHorizon == 26
TickMaxTx == 6

TickTimers ==
    {[lease |-> l, t1 |-> a, t2 |-> b] :
        l \in {10, DefaultLeaseSeconds}, a \in {0, 2}, b \in {8, 25, 75600}}

Fresh(st, t0) ==
    [DhcpInit EXCEPT !.state = st, !.xid = 1, !.init_time = t0,
                     !.renew_attemp_cnt = 0,
                     !.yiaddr = IF st = "Selecting" THEN Y1 ELSE NoIp,
                     !.siaddr = IF st = "Selecting" THEN SrvLocal ELSE NoIp]

Leased(st, si, t0, tm, cnt) ==
    [state |-> st, xid |-> 1, yiaddr |-> Y1, siaddr |-> si, init_time |-> t0,
     bound_time |-> 0, lease_seconds |-> tm.lease, renewal_seconds |-> tm.t1,
     rebinding_seconds |-> tm.t2, renew_attemp_cnt |-> cnt]

\* the earliest time attempt number cnt of a renewal can be sent
AttemptTime(tm, cnt) == tm.t1 + 1 + 6 * (cnt - 1)

\* the last time at which ClientState_Renewing.loop asks for a retry
RetryUntil(tm) == IF tm.t2 < tm.lease THEN tm.t2 ELSE tm.lease

\* the last time at which the horizon lets that happen
RetryHorizon(tm) == IF RetryUntil(tm) < TickHorizon THEN RetryUntil(tm) ELSE TickHorizon

TickClients ==
    {DhcpInit}
    \cup {Fresh(st, t0) : st \in {"AwaitOffer", "Selecting"}, t0 \in 0..1}
    \cup {Leased("Bound", SrvLocal, 0, tm, 0) : tm \in TickTimers}
    \cup {Leased("RenewingInit", si, 0, tm, 0) :
            si \in {SrvLocal, SrvRemote}, tm \in TickTimers}
    \cup UNION {{Leased("RenewingInit", SrvLocal, t0, tm, cnt) :
                    t0 \in AttemptTime(tm, cnt)..(RetryHorizon(tm) - RenewingRetryTimeout - 1)} :
                tm \in TickTimers, cnt \in 1..MaxRenewAttempts}
    \cup UNION {{Leased("Renewing", SrvLocal, t0, tm, cnt) :
                    t0 \in AttemptTime(tm, cnt)..
                           (IF cnt = 1 \/ AttemptTime(tm, cnt) <= RetryUntil(tm)
                            THEN TickHorizon ELSE 0)} :
                tm \in TickTimers, cnt \in 1..(MaxRenewAttempts + 1)}

\* the earliest time the client d can be ticked
TickFrom(d) ==
    CASE d.state \in {"Init", "AwaitOffer", "Selecting"} -> IF d.init_time = NoInt THEN 0 ELSE d.init_time
      [] d.state = "Bound" -> 0
      [] d.state = "RenewingInit" /\ d.renew_attemp_cnt = 0 -> d.renewal_seconds + 1
      [] d.state = "RenewingInit" -> d.init_time + RenewingRetryTimeout + 1
      [] d.state = "Renewing" -> d.init_time

\* the host of the client d: the handler registered while a reply is
\* awaited, the lease installed once bound, one send per message so far
HostOf(d) ==
    IF d.bound_time = NoInt
    THEN [NtwInit EXCEPT
            !.ip4TxCount = CASE d.state = "Init" -> 0
                             [] d.state = "AwaitOffer" -> 1
                             [] d.state = "Selecting" -> 2,
            !.udp4BcastBind = IF d.state = "Init" THEN EmptyMap
                              ELSE Register(EmptyMap, DHCP4_PORT_CLIENT, "dhcp")]
    ELSE [addArpEntry(setIPv4(NtwInit, d.yiaddr, Mask24, SrvLocal), d.siaddr, SrvMac)
            EXCEPT !.ip4TxCount = 2 + d.renew_attemp_cnt,
                   !.udp4UniBind = IF d.renew_attemp_cnt > 0
                                   THEN Register(EmptyMap, DHCP4_PORT_CLIENT, "dhcp")
                                   ELSE EmptyMap]

TickInit ==
    /\ dhcp \in TickClients
    /\ now \in TickFrom(dhcp)..TickHorizon
    /\ ntw = HostOf(dhcp)
    /\ nic = NicInit(ENC28J60_RX_BUFFER_START)
    /\ txFrames = <<>>
    /\ last = [op |-> "init", from |-> dhcp.state, link1 |-> FALSE, link2 |-> FALSE,
               x |-> NoInt, msg |-> NoMsg, bcast |-> FALSE, dst |-> NoIp,
               ret |-> <<>>, exc |-> "none"]

TickInitLoopLinkUp == InitLoopLinkUpWithin(TickMaxTx)

TickRenewingInitLoop == RenewingInitLoopWithin(TickMaxTx)

TickNext ==
    \/ InitLoopLinkDown
    \/ TickInitLoopLinkUp
    \/ AwaitOfferLoop
    \/ SelectingLoop
    \/ BoundLoop
    \/ TickRenewingInitLoop
    \/ RenewingLoop

TickSpec == TickInit /\ [][TickNext]_vars

-----------------------------------------------------------------------------
(* LeaseSpec: a client that holds a lease and has sent the first REQUEST   *)
(* of a renewal, on the host it runs on (see HostOf), at the time of the   *)
(* request or LeaseLater seconds after it: loop() calls and replies from   *)
(* there on, through a fall-back to Init and a second acquisition.         *)

LeaseLater == 6
LeaseMaxTx == 5

\* the timers of the lease held: T2 has expired LeaseLater seconds after
\* the request, or only the retry time has
LeaseTimers ==
    {[lease |-> 10, t1 |-> 2, t2 |-> 6], [lease |-> DefaultLeaseSeconds, t1 |-> 0, t2 |-> 75600]}

LeaseInit ==
    /\ \E tm \in LeaseTimers :
          /\ dhcp = Leased("Renewing", SrvLocal, AttemptTime(tm, 1), tm, 1)
          /\ now \in {AttemptTime(tm, 1), AttemptTime(tm, 1) + LeaseLater}
    /\ ntw = HostOf(dhcp)
    /\ nic = NicInit(ENC28J60_RX_BUFFER_START)
    /\ txFrames = <<>>
    /\ last = [op |-> "init", from |-> dhcp.state, link1 |-> FALSE, link2 |-> FALSE,
               x |-> NoInt, msg |-> NoMsg, bcast |-> FALSE, dst |-> NoIp,
               ret |-> <<>>, exc |-> "none"]

LeaseInitLoopLinkUp == InitLoopLinkUpWithin(LeaseMaxTx)

LeaseRenewingInitLoop == RenewingInitLoopWithin(LeaseMaxTx)

LeaseRxDhcp == RxDhcpWithin(LeaseMaxTx)

LeaseNext ==
    \/ InitLoopLinkDown
    \/ LeaseInitLoopLinkUp
    \/ AwaitOfferLoop
    \/ SelectingLoop
    \/ BoundLoop
    \/ LeaseRenewingInitLoop
    \/ RenewingLoop
    \/ LeaseRxDhcp
    \/ RxDhcpUnread

LeaseSpec == LeaseInit /\ [][LeaseNext]_vars

-----------------------------------------------------------------------------
(* LiveSpec: the clock advances, loop() keeps being called and no reply    *)
(* arrives.  The client starts at construction, in Selecting with the     *)
(* REQUEST just sent, or Bound on a fresh lease from a server on the       *)
(* subnet or behind a relay.                                               *)
(*                                                                         *)
(* The client reads the clock only to subtract one of its time stamps,     *)
(* and compares the difference with thresholds of at most LiveAge - 1      *)
(* seconds.  From LiveAge on, a second going by is modelled by moving the  *)
(* stamps one second back instead of the clock forward, a stamp no         *)
(* further back than LiveAge seconds.                                      *)
(*                                                                         *)
(* The calls that send are enabled while the identification counter stays *)
(* within LiveMaxTx.  A renewal sends at most MaxRenewAttempts + 1         *)
(* requests from a counter of 2, so the bound stops only the DISCOVERs of  *)
(* a client in Init.                                                       *)

LiveAge == 11
LiveMaxTx == 7

LiveTimers == [lease |-> 10, t1 |-> 2, t2 |-> 8]

LiveClients == {DhcpInit, Fresh("Selecting", 0)} \cup {Leased("Bound", si, 0, LiveTimers, 0) : si \in {SrvLocal, SrvRemote}}

Older(stamp) == IF stamp = NoInt \/ stamp = 0 THEN stamp ELSE stamp - 1

LiveInit ==
    /\ dhcp \in LiveClients
    /\ ntw = HostOf(dhcp)
    /\ nic = NicInit(ENC28J60_RX_BUFFER_START)
    /\ now = 0
    /\ txFrames = <<>>
    /\ last = [op |-> "init", from |-> dhcp.state, link1 |-> FALSE, link2 |-> FALSE,
               x |-> NoInt, msg |-> NoMsg, bcast |-> FALSE, dst |-> NoIp,
               ret |-> <<>>, exc |-> "none"]

\* time.time() returns one second more
LiveTick ==
    /\ IF now < LiveAge
       THEN now' = now + 1 /\ dhcp' = dhcp
       ELSE /\ now' = now
            /\ dhcp' = [dhcp EXCEPT !.init_time = Older(@), !.bound_time = Older(@)]
    /\ txFrames' = <<>>
    /\ last' = Op("tick", FALSE, FALSE, NoInt, NoMsg, FALSE, NoIp, <<>>, "none")
    /\ UNCHANGED <<ntw, nic>>

LiveInitLoopLinkUp == InitLoopLinkUpWithin(LiveMaxTx)

LiveRenewingInitLoop == RenewingInitLoopWithin(LiveMaxTx)

LiveLoop ==
    \/ InitLoopLinkDown
    \/ LiveInitLoopLinkUp
    \/ AwaitOfferLoop
    \/ SelectingLoop
    \/ BoundLoop
    \/ LiveRenewingInitLoop
    \/ RenewingLoop

LiveNext ==
    \/ LiveTick
    \/ LiveLoop

\* the clock keeps advancing and loop() keeps being called
LiveSpec == LiveInit /\ [][LiveNext]_vars /\ WF_vars(LiveTick) /\ WF_vars(LiveLoop)

-----------------------------------------------------------------------------
(* HostSpec: the application and the network drive the host controller     *)

\* the application configures a static address
HostSetIPv4 ==
    /\ ~ntw.configIp4Done
    /\ ntw' = setIPv4(ntw, Y1, Mask24, SrvLocal)
    /\ txFrames' = <<>>
    /\ last' = Op("setIPv4", FALSE, FALSE, NoInt, NoMsg, FALSE, Y1, <<>>, "none")
    /\ UNCHANGED <<dhcp, now, nic>>

\* rxAllPkt delivers an ARP reply: procArp inserts its sender
RxArpReply ==
    \E e \in {<<PeerIp, PeerMac>>, <<SrvLocal, SrvMac>>, <<SrvRemote, SrvMac>>} :
        /\ ntw' = addArpEntry(ntw, e[1], e[2])
        /\ txFrames' = <<>>
        /\ last' = Op("arp", FALSE, FALSE, NoInt, NoMsg, FALSE, e[1], <<>>, "none")
        /\ UNCHANGED <<dhcp, now, nic>>

AppDataLen == 5

\* the application calls sendUdp4(dst, 7, b"hello", 7); link: the
\* IsLinkUp() read of SendPacket, if made
AppSendUdp4 ==
    \E dst \in {PeerIp, SrvLocal, SrvRemote}, link \in BOOLEAN :
        LET s == sendUdp4(ntw, dst, 7, "hello", AppDataLen, 7, <<link>>)
        IN  /\ link => s.tx # <<>>
            /\ s.n.ip4TxCount <= MaxTx
            /\ ntw' = s.n
            /\ txFrames' = s.tx
            /\ last' = Op("sendUdp4", FALSE, link, NoInt, NoMsg, FALSE, dst, s.ret, s.exc)
            /\ UNCHANGED <<dhcp, now, nic>>

\* the application calls sendArpRequest(dst)
AppSendArpRequest ==
    \E dst \in {PeerIp, SrvLocal, SrvRemote}, link \in BOOLEAN :
        LET s == sendArpRequest(ntw, dst, link)
        IN  /\ ntw' = s.n
            /\ txFrames' = s.tx
            /\ last' = Op("sendArpRequest", FALSE, link, NoInt, NoMsg, FALSE, dst, s.ret, s.exc)
            /\ UNCHANGED <<dhcp, now, nic>>

\* the application calls connectIp4(dst) to have the target of a later
\* sendUdp4 resolved
AppConnectIp4 ==
    \E dst \in {PeerIp, SrvLocal, SrvRemote}, link \in BOOLEAN :
        LET s == connectIp4(ntw, dst, link)
        IN  /\ ntw' = s.n
            /\ txFrames' = s.tx
            /\ last' = Op("connectIp4", FALSE, link, NoInt, NoMsg, FALSE, dst, s.ret, s.exc)
            /\ UNCHANGED <<dhcp, now, nic>>

HostNext ==
    \/ HostSetIPv4
    \/ RxArpReply
    \/ AppSendUdp4
    \/ AppSendArpRequest
    \/ AppConnectIp4

HostSpec == Init /\ [][HostNext]_vars

-----------------------------------------------------------------------------
(* NicSpec: the chip stores frames, the driver is called                   *)

MaxFrames == 3
SmallBuffer == 32

\* lengths of the stored frames: even and odd
FrameLens == {60, 61}

\* where the ring stands at the start: after init, and after earlier frames
\* of these lengths were read up to one or two frames before the end
RingStarts ==
    {ENC28J60_RX_BUFFER_START,
     ENC28J60_RX_BUFFER_STOP + 1 - 66,
     ENC28J60_RX_BUFFER_STOP + 1 - 132}

NicSpecInit ==
    /\ dhcp = DhcpInit
    /\ ntw = NtwInit
    /\ now = 0
    /\ txFrames = <<>>
    /\ nic \in {NicInit(st) : st \in RingStarts}
    /\ last = [op |-> "init", from |-> "Init", link1 |-> FALSE, link2 |-> FALSE,
               x |-> NoInt, msg |-> NoMsg, bcast |-> FALSE, dst |-> NoIp,
               ret |-> <<>>, exc |-> "none"]

\* a frame arrives and the chip stores it
NicFrameArrives ==
    /\ nic.stored < MaxFrames
    /\ \E len \in FrameLens, ok \in BOOLEAN :
        nic' = [FrameStored(nic, nic.stored + 1, len, ok) EXCEPT !.ops = <<>>]
    /\ txFrames' = <<>>
    /\ last' = Op("stored", FALSE, FALSE, NoInt, NoMsg, FALSE, NoIp, <<>>, "none")
    /\ UNCHANGED <<dhcp, ntw, now>>

\* ReceivePacket(rxBuffer) is called with a buffer of cap bytes (last.x)
DrvReceivePacket ==
    \E cap \in {ENC28J60_ETH_RX_BUFFER_SIZE, SmallBuffer} :
        LET r == ReceivePacket(nic, cap)
        IN  /\ nic' = r.nic
            /\ txFrames' = <<>>
            /\ last' = Op("ReceivePacket", FALSE, FALSE, cap, NoMsg, FALSE, NoIp,
                          <<r.ret>>, "none")
            /\ UNCHANGED <<dhcp, ntw, now>>

\* SendPacket(chunks) is called with chunks of length bytes in all (last.x)
DrvSendPacket ==
    \E length \in {60, ENC28J60_ETH_TX_BUFFER_SIZE, ENC28J60_ETH_TX_BUFFER_SIZE + 1},
       link \in BOOLEAN :
        /\ nic' = [nic EXCEPT !.ops = SendPacketOps(length, link)]
        /\ txFrames' = IF SendPacket(length, link) >= 0 THEN <<[len |-> length]>> ELSE <<>>
        /\ last' = Op("SendPacket", FALSE, link, length, NoMsg, FALSE, NoIp,
                      <<SendPacket(length, link)>>, "none")
        /\ UNCHANGED <<dhcp, ntw, now>>

\* rxAllPkt() is called; the frames in late arrive while it runs
HostRxAllPkt ==
    \E late \in {<<>>} \cup {<<<<len, ok>>>> : len \in FrameLens, ok \in BOOLEAN} :
        /\ nic.stored + Len(late) <= MaxFrames
        /\ late # <<>> => nic.EPKTCNT > 0
        /\ nic' = rxAllPkt(nic, late)
        /\ txFrames' = <<>>
        /\ last' = Op("rxAllPkt", FALSE, FALSE, Len(late), NoMsg, FALSE, NoIp, <<>>, "none")
        /\ UNCHANGED <<dhcp, ntw, now>>

NicNext ==
    \/ NicFrameArrives
    \/ DrvReceivePacket
    \/ DrvSendPacket
    \/ HostRxAllPkt

NicSpec == NicSpecInit /\ [][NicNext]_vars

-----------------------------------------------------------------------------
(* Properties of the DHCP client and of the host controller.               *)
(*                                                                         *)
(* In a step, last' names the operation made and carries its inputs and    *)
(* results; dhcp, ntw and now are the attributes it started from, the      *)
(* primed ones those it left, txFrames' the frames the NIC accepted.       *)

RxIn(st) == last'.op = "rx" /\ dhcp.state = st

LoopIn(st) == last'.op = "loop" /\ dhcp.state = st

\* m passes the header checks of a client with the attributes dhcp
HeaderValid(m) ==
    /\ m.op = 2
    /\ m.xid = dhcp.xid
    /\ m.htype = 1
    /\ m.hlen = 6
    /\ m.chaddr = MyMac

\* m is a validated ACK carrying the options 1 (mask) and 3 (router)
FullAck(m) == HeaderValid(m) /\ m.msgtype = 5 /\ m.mask # NoIp /\ m.router # NoIp

\* r is the integer nearest to num/den, the even one of two equally near
Nearest(r, num, den) ==
    LET e == IF den * r >= num THEN den * r - num ELSE num - den * r
    IN  2 * e <= den /\ (2 * e = den => r % 2 = 0)

NoneSent == txFrames' = <<>>

\* the next hop towards ip has an entry in the ARP table
Resolved(ip) ==
    getArpEntry(ntw, IF isLocalIp4(ntw, ip) THEN ip ELSE ntw.gwIp4Addr) # NoMac

-----------------------------------------------------------------------------
(* C1 *)

\* Selecting receives the validated ACK of the offered address and server,
\* with the options 1, 3 and 51
C1_Ack ==
    /\ RxIn("Selecting")
    /\ FullAck(last'.msg)
    /\ last'.msg.yiaddr = dhcp.yiaddr
    /\ last'.msg.siaddr = dhcp.siaddr
    /\ last'.msg.lease # NoInt

C1_Bound ==
    /\ dhcp'.state = "Bound"
    /\ ntw'.myIp4Addr = last'.msg.yiaddr
    /\ dhcp'.lease_seconds = last'.msg.lease

\* C1 as stated: after DISCOVER, OFFER(Y, S), REQUEST and a validated
\* ACK(Y, S) with lease time L the client is Bound, the host address is Y,
\* lease_seconds is L and, unless the options 58/59 give them, the renewal
\* time is floor(L/2) and the rebinding time floor(7L/8).
C1_TimersFloor ==
    [][C1_Ack =>
        /\ C1_Bound
        /\ dhcp'.renewal_seconds =
             IF last'.msg.t1 # NoInt THEN last'.msg.t1 ELSE last'.msg.lease \div 2
        /\ dhcp'.rebinding_seconds =
             IF last'.msg.t2 # NoInt THEN last'.msg.t2
             ELSE (7 * last'.msg.lease) \div 8]_vars

\* C1 amended: as above, but the renewal time is L/2 and the rebinding time
\* 7L/8 each rounded to the nearest integer, a tie to the even one.
C1_TimersRounded ==
    [][C1_Ack =>
        /\ C1_Bound
        /\ IF last'.msg.t1 # NoInt
           THEN dhcp'.renewal_seconds = last'.msg.t1
           ELSE Nearest(dhcp'.renewal_seconds, last'.msg.lease, 2)
        /\ IF last'.msg.t2 # NoInt
           THEN dhcp'.rebinding_seconds = last'.msg.t2
           ELSE Nearest(dhcp'.rebinding_seconds, 7 * last'.msg.lease, 8)]_vars

\* a lease of 3 s was acquired: the renewal time is 2, not 1
C1_Witness ==
    /\ last.op = "rx" /\ last.from = "Selecting" /\ dhcp.state = "Bound"
    /\ last.msg.lease = 3 /\ last.msg.t1 = NoInt
    /\ ntw.myIp4Addr = last.msg.yiaddr
    /\ dhcp.renewal_seconds = 2

-----------------------------------------------------------------------------
(* C2 *)

\* C2: in AwaitOffer, Selecting and Renewing a message whose op, xid,
\* htype, hlen or chaddr fails the validation changes nothing: the state,
\* yiaddr, siaddr, the timers, the host configuration, the ARP table and the
\* registries stay as they were and nothing is transmitted.
C2_InvalidIgnored ==
    [][(/\ last'.op = "rx"
        /\ dhcp.state \in {"AwaitOffer", "Selecting", "Renewing"}
        /\ ~HeaderValid(last'.msg))
       => (dhcp' = dhcp /\ ntw' = ntw /\ NoneSent /\ last'.exc = "none")]_vars

\* a renewing client was handed an ACK of an earlier transaction
C2_Witness ==
    /\ last.op = "rx" /\ last.from = "Renewing"
    /\ last.msg.xid # dhcp.xid /\ last.msg.msgtype = 5
    /\ dhcp.state = "Renewing"

-----------------------------------------------------------------------------
(* C3 *)

\* C3 as stated: in Selecting the state changes only on a validated ACK;
\* every other message, a validated OFFER or NAK included, leaves the
\* client in Selecting.
C3_OnlyAckLeaves ==
    [][(RxIn("Selecting") /\ dhcp'.state # "Selecting")
       => (HeaderValid(last'.msg) /\ last'.msg.msgtype = 5)]_vars

\* C3 amended: in Selecting a validated ACK with the options 1 and 3 moves
\* the client to Bound, a validated message of any other type (OFFER, NAK)
\* moves it to Init, and every other message (one that fails the
\* validation, has no option 53, or is an ACK without option 1 or 3) leaves
\* it in Selecting.
C3_SelectingExits ==
    [][RxIn("Selecting") =>
        /\ dhcp'.state \in {"Selecting", "Bound", "Init"}
        /\ dhcp'.state = "Bound" <=> FullAck(last'.msg)
        /\ dhcp'.state = "Init" <=>
             (HeaderValid(last'.msg) /\ last'.msg.msgtype \notin {NoInt, 5})]_vars

\* a NAK of the current transaction sent the selecting client to Init
C3_Witness ==
    /\ last.op = "rx" /\ last.from = "Selecting"
    /\ last.msg.msgtype = 6 /\ last.msg.xid = dhcp.xid /\ last.msg.op = 2
    /\ dhcp.state = "Init"

-----------------------------------------------------------------------------
(* C4 *)

C4_Idle == dhcp' = dhcp /\ ntw' = ntw /\ NoneSent

\* a new transaction: the drawn xid, the counter at 0
C4_Fresh == dhcp'.xid = last'.x /\ dhcp'.renew_attemp_cnt = 0

\* one DISCOVER from 0.0.0.0:68 to 255.255.255.255:67, the handler
\* registered for broadcasts to port 68, the client awaiting the OFFER
C4_Started ==
    /\ C4_Fresh
    /\ Len(txFrames') = 1
    /\ txFrames'[1].ip_src = <<0, 0, 0, 0>> /\ txFrames'[1].sport = 68
    /\ txFrames'[1].ip_dst = <<255, 255, 255, 255>> /\ txFrames'[1].dport = 67
    /\ txFrames'[1].data.msgtype = 1 /\ txFrames'[1].data.xid = last'.x
    /\ 68 \in DOMAIN ntw'.udp4BcastBind
    /\ ntw'.udp4UniBind = ntw.udp4UniBind
    /\ dhcp'.state = "AwaitOffer"

\* C4 as stated: a tick in Init with the link down changes and emits
\* nothing; with the link up it draws a fresh xid, resets the attempt
\* counter, broadcasts one DISCOVER, registers the broadcast handler for
\* port 68 and enters AwaitOffer.
C4_LinkUpStarts ==
    [][LoopIn("Init") => IF last'.link1 THEN C4_Started ELSE C4_Idle]_vars

\* C4 amended: with the link down nothing changes; with the link up the xid
\* is drawn and the counter reset, and if the NIC accepts the DISCOVER the
\* rest follows as stated, while if the NIC refuses it (the link is down
\* when the frame is handed over) the client stays in Init, nothing is
\* emitted and nothing registered.
C4_InitTick ==
    [][LoopIn("Init") =>
        /\ ~last'.link1 => C4_Idle
        /\ (last'.link1 /\ last'.link2) => C4_Started
        /\ (last'.link1 /\ ~last'.link2) =>
             /\ C4_Fresh
             /\ NoneSent
             /\ dhcp'.state = "Init"
             /\ ntw'.udp4BcastBind = ntw.udp4BcastBind
             /\ ntw'.udp4UniBind = ntw.udp4UniBind]_vars

\* the DISCOVER went out and the client awaits the OFFER
C4_Witness ==
    /\ last.op = "loop" /\ last.from = "Init" /\ last.link1
    /\ dhcp.state = "AwaitOffer"
    /\ Len(txFrames) = 1 /\ txFrames[1].data.msgtype = 1
    /\ 68 \in DOMAIN ntw.udp4BcastBind

-----------------------------------------------------------------------------
(* C5 *)

\* the tick sets the state to Init if more than limit seconds passed since
\* init_time, and changes and emits nothing else
C5_Tick(limit) ==
    /\ dhcp' = [dhcp EXCEPT !.state = IF now - dhcp.init_time > limit THEN "Init" ELSE @]
    /\ ntw' = ntw
    /\ NoneSent

\* C5: a tick in AwaitOffer returns the client to Init exactly when more
\* than 5 s passed since init_time, a tick in Selecting exactly when more
\* than 10 s passed; otherwise the tick leaves the state unchanged; it
\* emits nothing.
C5_Timeouts ==
    [][/\ LoopIn("AwaitOffer") => C5_Tick(5)
       /\ LoopIn("Selecting") => C5_Tick(10)]_vars

\* Selecting timed out in the eleventh second
C5_Witness ==
    /\ last.op = "loop" /\ last.from = "Selecting" /\ dhcp.state = "Init"
    /\ now - dhcp.init_time = 11

-----------------------------------------------------------------------------
(* C6 *)

\* the tick in Bound after T1: the counter reset, the state RenewingInit
C6_Leave ==
    (LoopIn("Bound") /\ now - dhcp.bound_time > dhcp.renewal_seconds)
    => /\ dhcp' = [dhcp EXCEPT !.state = "RenewingInit", !.renew_attemp_cnt = 0]
       /\ ntw' = ntw
       /\ NoneSent

\* the tick in RenewingInit sent one REQUEST (flags 0, ciaddr = yiaddr, the
\* drawn xid) from port 68 to siaddr:67, registered the unicast handler for
\* port 68, counted the attempt and entered Renewing
C6_Sent ==
    /\ dhcp'.xid = last'.x
    /\ Len(txFrames') = 1
    /\ txFrames'[1].ip_dst = dhcp.siaddr /\ txFrames'[1].dport = 67
    /\ txFrames'[1].sport = 68 /\ txFrames'[1].eth_dst # ETH_ADDR_BCAST
    /\ txFrames'[1].data.msgtype = 3 /\ txFrames'[1].data.flags = 0
    /\ txFrames'[1].data.ciaddr = dhcp.yiaddr /\ txFrames'[1].data.xid = last'.x
    /\ 68 \in DOMAIN ntw'.udp4UniBind
    /\ dhcp'.renew_attemp_cnt = dhcp.renew_attemp_cnt + 1
    /\ dhcp'.state = "Renewing"

\* C6 as stated: once now - bound_time > T1 the next two ticks take the
\* client from Bound through RenewingInit to Renewing: the counter is reset
\* to 0 on leaving Bound, then exactly one REQUEST (flags 0, ciaddr =
\* yiaddr, fresh xid) is unicast to siaddr:67, the unicast handler for port
\* 68 is registered and the counter becomes 1.
C6_RenewalStarts ==
    [][C6_Leave /\ (LoopIn("RenewingInit") => C6_Sent)]_vars

\* C6 amended: the first tick is as stated; the second draws a fresh xid
\* and, if the NIC accepts the REQUEST (the next hop towards siaddr is in
\* the ARP table and the link is up), does the rest as stated; otherwise
\* nothing is emitted or registered, the counter keeps its value and the
\* client does not enter Renewing: it goes to Init if the send returned an
\* error, and stays in RenewingInit if the send raised (next hop unknown).
C6_RenewalTicks ==
    [][/\ C6_Leave
       /\ LoopIn("RenewingInit") =>
            /\ dhcp'.xid = last'.x
            /\ IF Resolved(dhcp.siaddr) /\ last'.link2
               THEN C6_Sent /\ last'.exc = "none"
               ELSE /\ NoneSent
                    /\ ntw'.udp4UniBind = ntw.udp4UniBind
                    /\ dhcp'.renew_attemp_cnt = dhcp.renew_attemp_cnt
                    /\ dhcp'.state = IF Resolved(dhcp.siaddr) THEN "Init"
                                     ELSE "RenewingInit"]_vars

\* the first REQUEST of a renewal went out
C6_Witness ==
    /\ last.op = "loop" /\ last.from = "RenewingInit" /\ dhcp.state = "Renewing"
    /\ dhcp.renew_attemp_cnt = 1
    /\ Len(txFrames) = 1 /\ txFrames[1].data.flags = 0
    /\ txFrames[1].ip_dst = dhcp.siaddr
    /\ 68 \in DOMAIN ntw.udp4UniBind

-----------------------------------------------------------------------------
(* C7 *)

\* C7: a tick in Renewing moves the client to Init if more than T2 or more
\* than the lease time passed since bound_time or the attempt counter
\* exceeds 3; otherwise to RenewingInit if more than 5 s passed since
\* init_time; otherwise it changes nothing.
C7_RenewingTick ==
    [][LoopIn("Renewing") =>
        /\ dhcp' = [dhcp EXCEPT !.state =
             IF \/ now - dhcp.bound_time > dhcp.rebinding_seconds
                \/ now - dhcp.bound_time > dhcp.lease_seconds
                \/ dhcp.renew_attemp_cnt > 3
             THEN "Init"
             ELSE IF now - dhcp.init_time > 5 THEN "RenewingInit" ELSE "Renewing"]
        /\ ntw' = ntw
        /\ NoneSent]_vars

\* the client gave up after the fourth attempt, within T2 and the lease
C7_Witness ==
    /\ last.op = "loop" /\ last.from = "Renewing" /\ dhcp.state = "Init"
    /\ dhcp.renew_attemp_cnt = 4
    /\ now - dhcp.bound_time <= dhcp.rebinding_seconds
    /\ now - dhcp.bound_time <= dhcp.lease_seconds

-----------------------------------------------------------------------------
(* C8 *)

\* C8: in Renewing a validated ACK (with the options 1 and 3) applies the
\* lease: address, mask and router are installed, the DNS server if option
\* 6 is present, bound_time is the time of receipt, the lease time and the
\* timers are those of the ACK, siaddr maps to the frame's source MAC in
\* the ARP table, the unicast handler for port 68 is removed and the client
\* is Bound.
C8_RenewAck ==
    [][(RxIn("Renewing") /\ FullAck(last'.msg)) =>
        /\ dhcp'.state = "Bound"
        /\ dhcp'.yiaddr = last'.msg.yiaddr /\ dhcp'.siaddr = last'.msg.siaddr
        /\ ntw'.myIp4Addr = last'.msg.yiaddr
        /\ ntw'.netIp4Mask = last'.msg.mask
        /\ ntw'.gwIp4Addr = last'.msg.router
        /\ ntw'.configIp4Done
        /\ ntw'.dnsSrv4Addr =
             IF last'.msg.dns # NoIp THEN last'.msg.dns ELSE ntw.dnsSrv4Addr
        /\ dhcp'.bound_time = now
        /\ dhcp'.lease_seconds =
             IF last'.msg.lease # NoInt THEN last'.msg.lease ELSE 86400
        /\ IF last'.msg.t1 # NoInt
           THEN dhcp'.renewal_seconds = last'.msg.t1
           ELSE Nearest(dhcp'.renewal_seconds, dhcp'.lease_seconds, 2)
        /\ IF last'.msg.t2 # NoInt
           THEN dhcp'.rebinding_seconds = last'.msg.t2
           ELSE Nearest(dhcp'.rebinding_seconds, 7 * dhcp'.lease_seconds, 8)
        /\ getArpEntry(ntw', last'.msg.siaddr) = last'.msg.eth_src
        /\ 68 \notin DOMAIN ntw'.udp4UniBind
        /\ ntw'.udp4BcastBind = ntw.udp4BcastBind
        /\ NoneSent]_vars

\* a renewal was acknowledged with a DNS server
C8_Witness ==
    /\ last.op = "rx" /\ last.from = "Renewing" /\ dhcp.state = "Bound"
    /\ last.msg.dns = DnsIp /\ ntw.dnsSrv4Addr = DnsIp
    /\ dhcp.bound_time = now
    /\ 68 \notin DOMAIN ntw.udp4UniBind

-----------------------------------------------------------------------------
(* C9 *)

\* the transitions a timer makes: nothing is sent
C9_TimerEdges ==
    {<<"AwaitOffer", "Init">>, <<"Selecting", "Init">>, <<"Bound", "RenewingInit">>,
     <<"Renewing", "RenewingInit">>, <<"Renewing", "Init">>}

\* C9: a call of loop() makes at most one transition of the DHCP state: it
\* does the work of the state it starts in and of no other.  A tick in
\* AwaitOffer, Selecting, Bound or Renewing either changes nothing or makes
\* one timer transition and sends nothing; a tick in Init or RenewingInit
\* sends at most one frame and ends in the same state or its successor.
C9_OneTransition ==
    [][last'.op = "loop" =>
        \/ /\ dhcp.state \in {"AwaitOffer", "Selecting", "Bound", "Renewing"}
           /\ dhcp' = dhcp /\ ntw' = ntw /\ NoneSent
        \/ /\ <<dhcp.state, dhcp'.state>> \in C9_TimerEdges
           /\ dhcp'.xid = dhcp.xid /\ dhcp'.init_time = dhcp.init_time
           /\ ntw' = ntw /\ NoneSent
        \/ /\ dhcp.state = "Init" /\ dhcp'.state = "Init" /\ NoneSent
        \/ /\ dhcp.state = "Init" /\ dhcp'.state = "AwaitOffer"
           /\ Len(txFrames') = 1 /\ txFrames'[1].data.msgtype = 1
        \/ /\ dhcp.state = "RenewingInit" /\ dhcp'.state \in {"RenewingInit", "Init"}
           /\ NoneSent
        \/ /\ dhcp.state = "RenewingInit" /\ dhcp'.state = "Renewing"
           /\ Len(txFrames') = 1 /\ txFrames'[1].data.msgtype = 3]_vars

\* a tick took the client from Bound to RenewingInit and no further
C9_Witness ==
    /\ last.op = "loop" /\ last.from = "Bound" /\ dhcp.state = "RenewingInit"
    /\ txFrames = <<>>

-----------------------------------------------------------------------------
(* C10 *)

\* C10: sendUdp4 to a destination whose next hop has no entry in the ARP
\* table returns -1, hands no frame to the NIC and leaves ip4TxCount and
\* the ARP table unchanged.
C10_UnresolvedRefused ==
    [][(last'.op = "sendUdp4" /\ ~Resolved(last'.dst)) =>
        /\ last'.ret = <<-1>>
        /\ NoneSent
        /\ ntw'.ip4TxCount = ntw.ip4TxCount
        /\ ntw'.arpTable = ntw.arpTable]_vars

-----------------------------------------------------------------------------
(* BankSpec: register accesses of the driver, from the soft reset of       *)
(* init() on.  nic holds the cached bank, ECON1 and the SPI transactions   *)
(* of the last call.                                                       *)

\* init() after SoftReset: ECON1 is 0x00 in the chip and the cache holds
\* 0xFFFF
BankInit ==
    /\ dhcp = DhcpInit
    /\ ntw = NtwInit
    /\ nic = [currentBank |-> 65535, ECON1 |-> 0, spi |-> <<>>, txdone |-> NoInt]
    /\ now = 0
    /\ txFrames = <<>>
    /\ last = [op |-> "init", x |-> NoInt, data |-> NoInt]

\* registers of the four banks and of both kinds, and the common ones
Regs ==
    {ENC28J60_ERDPTL, ENC28J60_ECON2, ENC28J60_ECON1, ENC28J60_ERXFCON,
     ENC28J60_EPKTCNT, ENC28J60_MACON1, ENC28J60_MIREGADR, ENC28J60_MAADR5,
     ENC28J60_MISTAT}

RegOp(name, address, data) == [op |-> name, x |-> address, data |-> data]

Called(c) == [c EXCEPT !.spi = <<>>]

BankSelect ==
    \E a \in Regs :
        /\ nic' = SelectBank(Called(nic), a)
        /\ last' = RegOp("SelectBank", a, NoInt)
        /\ UNCHANGED <<dhcp, ntw, now, txFrames>>

BankReadReg ==
    \E a \in Regs :
        /\ nic' = ReadReg(Called(nic), a)
        /\ last' = RegOp("ReadReg", a, NoInt)
        /\ UNCHANGED <<dhcp, ntw, now, txFrames>>

\* ECON1 is written by init() only, with RXEN
BankWriteReg ==
    \E a \in Regs, d \in {0, ENC28J60_ECON1_RXEN, 255} :
        /\ a = ENC28J60_ECON1 => d = ENC28J60_ECON1_RXEN
        /\ nic' = WriteReg(Called(nic), a, d)
        /\ last' = RegOp("WriteReg", a, d)
        /\ UNCHANGED <<dhcp, ntw, now, txFrames>>

\* SendPacket and ReceivePacket set and clear bits of the common registers
BankSetBit ==
    \E w \in {<<ENC28J60_ECON1, ENC28J60_ECON1_TXRST>>, <<ENC28J60_ECON1, ENC28J60_ECON1_TXRTS>>,
              <<ENC28J60_ECON2, 64>>} :
        /\ nic' = SetBit(Called(nic), w[1], w[2])
        /\ last' = RegOp("SetBit", w[1], w[2])
        /\ UNCHANGED <<dhcp, ntw, now, txFrames>>

BankClearBit ==
    \E w \in {<<ENC28J60_ECON1, ENC28J60_ECON1_TXRST>>, <<ENC28J60_EIR, 10>>} :
        /\ nic' = ClearBit(Called(nic), w[1], w[2])
        /\ last' = RegOp("ClearBit", w[1], w[2])
        /\ UNCHANGED <<dhcp, ntw, now, txFrames>>

BankNext ==
    \/ BankSelect
    \/ BankReadReg
    \/ BankWriteReg
    \/ BankSetBit
    \/ BankClearBit

BankSpec == BankInit /\ [][BankNext]_vars

-----------------------------------------------------------------------------
(* Dhcp4Client.py: decoding of the options of a received message.  frame  *)
(* is the part of the message after the fixed header and the magic cookie, *)
(* the option map a set of <<code, value>> pairs with one pair per code.   *)

DHCP4_OPT_PAD == 0
DHCP4_OPT_END == 255
STATE_GETOPT == 0
STATE_GETLEN == 1

\* self.options[opt] = value
PutOption(options, opt, value) ==
    {p \in options : p[1] # opt} \cup {<<opt, value>>}

RECURSIVE unpackOptionsFrom(_, _, _, _, _)
\* the loop of DhcpMsg.unpackOptions, idx being 0-based
unpackOptionsFrom(frame, idx, state, opt, options) ==
    IF ~(idx < Len(frame)) THEN options
    ELSE IF STATE_GETOPT = state
         THEN LET o == frame[idx + 1]
              IN  IF DHCP4_OPT_END = o THEN options
                  ELSE IF DHCP4_OPT_PAD = o
                       THEN unpackOptionsFrom(frame, idx + 1, STATE_GETLEN, o, options)
                       ELSE unpackOptionsFrom(frame, idx + 1, STATE_GETLEN, o, options)
         ELSE LET lenght == frame[idx + 1]
              IN  unpackOptionsFrom(frame, idx + 1 + lenght, STATE_GETOPT, opt,
                      PutOption(options, opt, Slice(frame, idx + 1, idx + 1 + lenght)))

\* DhcpMsg.unpackOptions on a message without options yet
unpackOptions(frame) ==
    unpackOptionsFrom(frame, 0, STATE_GETOPT, DHCP4_OPT_END, {})

-----------------------------------------------------------------------------
(* OptSpec: option fields made of up to MaxItems items, each an option, a  *)
(* PAD byte or the END byte, and their decoding.                           *)

MaxItems == 3

PadItem == <<DHCP4_OPT_PAD>>

EndItem == <<DHCP4_OPT_END>>

\* message type, lease time, and an option whose value holds the bytes 255
\* and 0
OptItems ==
    {PadItem, EndItem, <<53, 1, 5>>, <<51, 1, 9>>, <<1, 2, 255, 0>>}

RECURSIVE Flat(_)
Flat(items) ==
    IF items = <<>> THEN <<>> ELSE Head(items) \o Flat(Tail(items))

\* the items with the PAD bytes removed
NoPad(items) == SelectSeq(items, LAMBDA it : it # PadItem)

OptInit ==
    /\ dhcp = DhcpInit
    /\ ntw = NtwInit
    /\ nic = NicInit(ENC28J60_RX_BUFFER_START)
    /\ now = 0
    /\ txFrames = <<>>
    /\ \E k \in 0..MaxItems : \E items \in [1..k -> OptItems] :
           last = [op |-> "received", items |-> items, options |-> {}]

OptUnpack ==
    /\ last.op = "received"
    /\ last' = [last EXCEPT !.op = "unpackOptions",
                            !.options = unpackOptions(Flat(last.items))]
    /\ UNCHANGED <<dhcp, ntw, now, txFrames, nic>>

OptNext == OptUnpack

OptSpec == OptInit /\ [][OptNext]_vars

-----------------------------------------------------------------------------
(* DemuxSpec: the application registers handlers, the network delivers     *)
(* IPv4 frames.                                                            *)

Ports == {7, 9}
Hello == <<104, 101, 108, 108, 111>>

\* the bytes, from the IPv4 header on, of a received frame with the fields
\* of g; ff: the flags and fragment offset word; chk: the UDP checksum field
Ip4Frame(g) ==
    LET udpLen == UDP_HDR_SIZE + Len(g.data)
        totlen == g.ihl * 4 + udpLen
        hdr == << g.ver * 16 + g.ihl, 0, totlen \div 256, totlen % 256, 0, 1,
                  g.ff \div 256, g.ff % 256, 64, g.proto, 0, 0 >> \o g.src \o g.dst
        hc == calcChecksum(hdr, 0)
    IN  [hdr EXCEPT ![11] = hc \div 256, ![12] = hc % 256]
        \o << g.sport \div 256, g.sport % 256, g.dport \div 256, g.dport % 256,
              udpLen \div 256, udpLen % 256, g.chk \div 256, g.chk % 256 >>
        \o g.data

\* the one's-complement sum of a total S of 16-bit words
OnesSum(S) == IF S = 0 THEN 0 ELSE ((S - 1) % 65535) + 1

\* RFC 768: the complement of the one's-complement sum of the pseudo-header
\* (addresses, 0, 17, UDP length), the UDP header with a checksum field of
\* zero and the payload padded to a whole word
Rfc768(g) ==
    LET udpLen == UDP_HDR_SIZE + Len(g.data)
        pseudo == g.src[1] * 256 + g.src[2] + g.src[3] * 256 + g.src[4]
                  + g.dst[1] * 256 + g.dst[2] + g.dst[3] * 256 + g.dst[4]
                  + 17 + udpLen
        header == g.sport + g.dport + udpLen + 0
    IN  65535 - OnesSum(pseudo + header + WordSum(g.data))

Dgram(dst, dport, ver, ihl, ff, proto, data, chk) ==
    [ver |-> ver, ihl |-> ihl, ff |-> ff, proto |-> proto, src |-> PeerIp, dst |-> dst,
     sport |-> 7, dport |-> dport, data |-> data, chk |-> chk]

\* with the checksum field valid
Valid(g) == [g EXCEPT !.chk = IF Rfc768(g) = 0 THEN 65535 ELSE Rfc768(g)]

\* UDP datagrams to the host, to the broadcast address, to another host
\* and to the subnet's broadcast address, with a zero and with a valid
\* checksum; and datagrams to the host with another version, with options,
\* as fragments, with the DF flag and of another protocol
DemuxDgrams ==
    LET plain == {Dgram(dst, p, 4, 5, 0, IP4_TYPE_UDP, Hello, 0) :
                    dst \in {Y1, IP4_ADDR_BCAST, Y2, <<10, 0, 2, 255>>}, p \in Ports}
    IN  plain \cup {Valid(g) : g \in plain}
        \cup {Dgram(Y1, 7, 6, 5, 0, IP4_TYPE_UDP, Hello, 0),
              Dgram(Y1, 7, 4, 6, 0, IP4_TYPE_UDP, Hello, 0),
              Dgram(Y1, 7, 4, 5, 8192, IP4_TYPE_UDP, Hello, 0),
              Dgram(Y1, 7, 4, 5, 1, IP4_TYPE_UDP, Hello, 0),
              Dgram(Y1, 7, 4, 5, 16384, IP4_TYPE_UDP, Hello, 0),
              Dgram(Y1, 7, 4, 5, 0, 99, Hello, 0)}

\* the record of a registry operation or of a frame handed to procIp4;
\* prior: the handlers called by the operation before, if it was a frame
NetOp(name, reg, port, cb, g, calls) ==
    [op |-> name, reg |-> reg, port |-> port, cb |-> cb, dgram |-> g, calls |-> calls,
     prior |-> IF last.op \in {"procIp4", "rxEmitted"}
               THEN [i \in 1..Len(last.calls) |-> last.calls[i].cb] ELSE <<>>]

\* the application calls one of the three register functions; port 9 is
\* used in the unicast registry, and there and in the TCP registry only
\* the handler "keep"
AppRegister ==
    \E r \in {"udp4UniBind", "udp4BcastBind", "tcp4UniBind"}, port \in Ports,
       cb \in Handlers \cup {"None"} :
        /\ (port = 9 \/ r = "tcp4UniBind") => cb \in {"keep", "None"}
        /\ port = 9 => r = "udp4UniBind"
        /\ ntw' = CASE r = "udp4UniBind" -> registerUdp4Callback(ntw, port, cb)
                    [] r = "udp4BcastBind" -> registerUdp4BcastCallback(ntw, port, cb)
                    [] r = "tcp4UniBind" -> registerTcp4Callback(ntw, port, cb)
        /\ txFrames' = <<>>
        /\ last' = NetOp("register", r, port, cb, NoMsg, <<>>)
        /\ UNCHANGED <<dhcp, now, nic>>

\* rxAllPkt hands a frame to procEth, which hands it to procIp4; a handler
\* that answers sends while the identification counter stays within MaxTx
RxIp4In(dgrams) ==
    \E g \in dgrams, link \in BOOLEAN :
        LET r == procIp4(ntw, Ip4Frame(g), PeerMac, <<link>>)
        IN  /\ r.n.ip4TxCount <= MaxTx
            /\ ntw' = r.n
            /\ txFrames' = r.tx
            /\ last' = NetOp("procIp4", "None", g.dport, "None", g, r.calls)
            /\ UNCHANGED <<dhcp, now, nic>>

RxIp4 == RxIp4In(DemuxDgrams)

DemuxNext ==
    \/ HostSetIPv4
    \/ AppRegister
    \/ RxIp4

DemuxSpec == Init /\ [][DemuxNext]_vars

-----------------------------------------------------------------------------
(* UdpSpec: a configured host with the handler "keep" on UDP port 7, which *)
(* the application replaces by the echo server and back, receives          *)
(* datagrams with every kind of checksum field and sends its own           *)

Payloads == {Hello, <<231, 149>>, <<255, 204>>, <<101>>}

\* after setIPv4, an ARP reply of the peer and both registrations
UdpInit ==
    /\ dhcp = DhcpInit
    /\ ntw = registerUdp4BcastCallback(
                 registerUdp4Callback(
                     addArpEntry(setIPv4(NtwInit, Y1, Mask24, SrvLocal), PeerIp, PeerMac),
                     7, "keep"),
                 7, "keep")
    /\ nic = NicInit(ENC28J60_RX_BUFFER_START)
    /\ now = 0
    /\ txFrames = <<>>
    /\ last = [op |-> "init", from |-> "Init", link1 |-> FALSE, link2 |-> FALSE,
               x |-> NoInt, msg |-> NoMsg, bcast |-> FALSE, dst |-> NoIp,
               ret |-> <<>>, exc |-> "none"]

\* datagrams of the peer to the host and to the broadcast address, whose
\* checksum field is 0, 0xFFFF, the RFC 768 value, or that value plus one
ChecksumDgrams ==
    LET plain == {Dgram(dst, p, 4, 5, 0, IP4_TYPE_UDP, data, 0) :
                    dst \in {Y1, IP4_ADDR_BCAST}, p \in Ports, data \in Payloads}
    IN  UNION {{g, [g EXCEPT !.chk = 65535], [g EXCEPT !.chk = Rfc768(g)],
                [g EXCEPT !.chk = (Rfc768(g) + 1) % 65536]} : g \in plain}

UdpRx == RxIp4In(ChecksumDgrams)

\* a frame a peer built with makeIp4Hdr and makeUdp4Hdr arrives at the
\* host, whose address is its destination
UdpRxEmitted ==
    \E src \in {PeerIp}, sp \in {7, 5000}, dp \in Ports, data \in Payloads, link \in BOOLEAN :
        LET frame == makeIp4Hdr(src, ntw.myIp4Addr, 1, IP4_TYPE_UDP, UDP_HDR_SIZE + Len(data), 0, 0)
                     \o makeUdp4Hdr(src, sp, ntw.myIp4Addr, dp, data) \o data
            g == [src |-> src, dst |-> ntw.myIp4Addr, sport |-> sp, dport |-> dp,
                  data |-> data]
            r == procIp4(ntw, frame, PeerMac, <<link>>)
        IN  /\ r.n.ip4TxCount <= MaxTx
            /\ ntw' = r.n
            /\ txFrames' = r.tx
            /\ last' = NetOp("rxEmitted", "None", dp, "None", g, r.calls)
            /\ UNCHANGED <<dhcp, now, nic>>

\* the application calls sendUdp4(PeerIp, dp, data, 7)
UdpSendUdp4 ==
    \E dp \in Ports, data \in Payloads, link \in BOOLEAN :
        LET s == sendUdp4(ntw, PeerIp, dp, data, Len(data), 7, <<link>>)
        IN  /\ s.n.ip4TxCount <= MaxTx
            /\ ntw' = s.n
            /\ txFrames' = s.tx
            /\ last' = Op("sendUdp4", FALSE, link, NoInt, NoMsg, FALSE, PeerIp, s.ret, s.exc)
            /\ UNCHANGED <<dhcp, now, nic>>

\* the application calls sendUdp4Bcast(dp, 7, data)
UdpSendUdp4Bcast ==
    \E dp \in Ports, data \in Payloads, link \in BOOLEAN :
        LET s == sendUdp4Bcast(ntw, dp, 7, data, Len(data), link)
        IN  /\ s.n.ip4TxCount <= MaxTx
            /\ ntw' = s.n
            /\ txFrames' = s.tx
            /\ last' = Op("sendUdp4Bcast", FALSE, link, NoInt, NoMsg, TRUE,
                          IP4_ADDR_BCAST, s.ret, s.exc)
            /\ UNCHANGED <<dhcp, now, nic>>

\* the application registers the echo server on port 7 or the handler
\* "keep" again: registerUdp4Callback(7, Udp4EchoServer(ntw))
UdpRegister ==
    \E cb \in {"echo", "keep"} :
        /\ ntw' = registerUdp4Callback(ntw, 7, cb)
        /\ txFrames' = <<>>
        /\ last' = NetOp("register", "udp4UniBind", 7, cb, NoMsg, <<>>)
        /\ UNCHANGED <<dhcp, now, nic>>

UdpNext ==
    \/ UdpRegister
    \/ UdpRx
    \/ UdpRxEmitted
    \/ UdpSendUdp4
    \/ UdpSendUdp4Bcast

UdpSpec == UdpInit /\ [][UdpNext]_vars

-----------------------------------------------------------------------------
(* FragSpec: the configured host of UdpSpec sends datagrams around and     *)
(* above the MTU to the resolved local peer, and its echo server answers   *)
(* a datagram above the MTU.  txFrames holds the frames the NIC accepted   *)
(* during the last call, a fragment being a FragFrame.                     *)

MaxFrags == 3

\* payload lengths: the largest that fits one frame, one byte more, and
\* lengths around two and three full fragments
FragLens == {1472, 1473, 1480, 2952, 2953, 3000}

\* a payload of n different-looking bytes
FragData(n) == [i \in 1..n |-> (i * 37 + 11) % 256]

\* the identification counter the host starts with: fresh, or after
\* 65534 datagrams
FragIdents == {0, 65534}

SendOp(name, dport, data_len, links, ident, ret) ==
    [op |-> name, dport |-> dport, data_len |-> data_len, links |-> links,
     ident |-> ident, ret |-> ret]

\* the UDP length fields of the datagrams the echo server answers in two
\* frames: one byte above the MTU, and all the receive buffer holds
EchoLens == {EthMTU - IP4_HDR_NOOPT_SIZE + 1,
             ENC28J60_ETH_RX_BUFFER_SIZE - ETH_HDR_SIZE - IP4_HDR_NOOPT_SIZE}

\* the receive buffer from the IPv4 header on, after a datagram of the peer
\* from port 1234 to port 7 was read into it: the UDP checksum field is 0
\* and the length field udpLen, which reaches into the bytes a full frame
\* received before left in the buffer
EchoBuffer(udpLen) ==
    makeIp4Hdr(PeerIp, Y1, 1, IP4_TYPE_UDP, udpLen, 0, 0)
    \o <<1234 \div 256, 1234 % 256, 0, 7, udpLen \div 256, udpLen % 256, 0, 0>>
    \o FragData(ENC28J60_ETH_RX_BUFFER_SIZE - ETH_HDR_SIZE - IP4_HDR_NOOPT_SIZE - UDP_HDR_SIZE)

\* the host registered the echo server: registerUdp4Callback(7, Udp4EchoServer(ntw))
FragInit ==
    /\ dhcp = DhcpInit
    /\ \E id \in FragIdents :
           ntw = [registerUdp4Callback(
                      addArpEntry(setIPv4(NtwInit, Y1, Mask24, SrvLocal), PeerIp, PeerMac),
                      7, "echo")
                  EXCEPT !.ip4TxCount = id]
    /\ nic = NicInit(ENC28J60_RX_BUFFER_START)
    /\ now = 0
    /\ txFrames = <<>>
    /\ last = SendOp("init", NoInt, NoInt, <<>>, NoInt, <<>>)

\* the application calls sendUdp4(PeerIp, dp, data, 7), once
FragSendUdp4 ==
    \E dp \in Ports, len \in FragLens, links \in [1..MaxFrags -> BOOLEAN] :
        LET s == sendUdp4(ntw, PeerIp, dp, FragData(len), len, 7, links)
        IN  /\ ntw.ip4TxCount \in FragIdents
            /\ ntw' = s.n
            /\ txFrames' = s.tx
            /\ last' = SendOp("sendUdp4", dp, len, links, ntw.ip4TxCount, s.ret)
            /\ UNCHANGED <<dhcp, now, nic>>

\* rxAllPkt hands the datagram to procEth and procIp4; the echo server
\* sends the data back, each SendPacket call reading the link state
FragRxEcho ==
    \E udpLen \in EchoLens, links \in [1..2 -> BOOLEAN] :
        LET r == procIp4(ntw, EchoBuffer(udpLen), PeerMac, links)
        IN  /\ ntw.ip4TxCount \in FragIdents
            /\ ntw' = r.n
            /\ txFrames' = r.tx
            /\ last' = SendOp("Udp4EchoServer", 1234, Len(r.calls[1].udp_data), links,
                              ntw.ip4TxCount, <<>>)
            /\ UNCHANGED <<dhcp, now, nic>>

FragNext ==
    \/ FragSendUdp4
    \/ FragRxEcho

FragSpec == FragInit /\ [][FragNext]_vars

-----------------------------------------------------------------------------
(* EthSpec: the configured host receives Ethernet frames, tagged and not,  *)
(* that carry ARP, ICMP, UDP and other protocols, and the application      *)
(* enters peers in the ARP table.  A frame is the sequence of its bytes;   *)
(* the MAC addresses of the peers are the 6 bytes found in the frames.     *)

\* the echo replies made in a behaviour
EthMaxTx == 1

\* the shortest Ethernet frame, without its CRC
MinFrame == 60

MyMacBytes == <<14, 95, 95, 0, 0, 1>>
MacA == <<2, 0, 0, 0, 0, 5>>
MacB == <<2, 0, 0, 0, 0, 6>>

\* an ARP packet for Ethernet and IPv4
ArpPkt(oper, sha, spa, tha, tpa) ==
    <<0, 1, 8, 0, 6, 4, oper \div 256, oper % 256>> \o sha \o spa \o tha \o tpa

\* an ICMP message with its checksum
IcmpMsg(type, ident, seq, data) ==
    LET m == <<type, 0, 0, 0, ident \div 256, ident % 256, seq \div 256, seq % 256>> \o data
        c == calcChecksum(m, 0)
    IN  [m EXCEPT ![3] = c \div 256, ![4] = c % 256]

\* an IPv4 datagram of a peer, flags being the byte of the flags
Ip4Pkt(src, dst, proto, flags, payload) ==
    makeIp4Hdr(src, dst, 1, proto, Len(payload), flags, 0) \o payload

\* what a received frame carries: tci is the tag control information of a
\* tagged frame and NoInt for an untagged one
Carried(kind, tci, type, mac, src, dst, x, body) ==
    [kind |-> kind, tci |-> tci, type |-> type, mac |-> mac, src |-> src, dst |-> dst,
     x |-> x, body |-> body]

\* the bytes of the frame as the chip stores it: the sender pads a short
\* frame with zeros to 60 bytes
EthBytes(g) ==
    LET f == MyMacBytes \o g.mac
             \o (IF g.tci = NoInt THEN <<>>
                 ELSE <<ETH_TYPE_8021Q \div 256, ETH_TYPE_8021Q % 256,
                        g.tci \div 256, g.tci % 256>>)
             \o <<g.type \div 256, g.type % 256>> \o g.body
    IN  IF Len(f) >= MinFrame THEN f ELSE f \o [i \in 1..(MinFrame - Len(f)) |-> 0]

\* the frames received, as they arrive untagged
Untagged ==
    {Carried("arp", NoInt, ETH_TYPE_ARP, e[1], e[2], tpa, ARP_OP_REQUEST,
             ArpPkt(ARP_OP_REQUEST, e[1], e[2], <<0, 0, 0, 0, 0, 0>>, tpa)) :
        e \in {<<MacA, PeerIp>>, <<MacB, Y2>>}, tpa \in {Y1, Y2}}
    \cup
    {Carried("arp", NoInt, ETH_TYPE_ARP, e[1], e[2], Y1, ARP_OP_REPLY,
             ArpPkt(ARP_OP_REPLY, e[1], e[2], MyMacBytes, Y1)) :
        e \in {<<MacA, PeerIp>>, <<MacB, PeerIp>>, <<MacB, Y2>>}}
    \cup
    {Carried("icmp", NoInt, ETH_TYPE_IP4, MacA, PeerIp, e[1], e[2],
             Ip4Pkt(PeerIp, e[1], IP4_TYPE_ICMP, 0, IcmpMsg(e[2], 4660, 7, e[3]))) :
        e \in {<<Y1, ICMP4_ECHO_REQUEST, Hello>>, <<Y1, ICMP4_ECHO_REQUEST, <<>> >>,
               <<Y2, ICMP4_ECHO_REQUEST, Hello>>, <<Y1, ICMP4_ECHO_REPLY, Hello>>,
               <<Y1, ICMP4_UNREACHABLE, Hello>>, <<Y1, 13, Hello>>}}
    \cup
    \* echo requests cut after the checksum and after the code: the IP total
    \* lengths are 24 and 22
    {Carried("icmp", NoInt, ETH_TYPE_IP4, MacA, PeerIp, Y1, ICMP4_ECHO_REQUEST,
             Ip4Pkt(PeerIp, Y1, IP4_TYPE_ICMP, 0, m)) :
        m \in {<<ICMP4_ECHO_REQUEST, 0, 247, 255>>, <<ICMP4_ECHO_REQUEST, 0>>}}
    \cup
    {Carried("frag", NoInt, ETH_TYPE_IP4, MacA, PeerIp, Y1, ICMP4_ECHO_REQUEST,
             Ip4Pkt(PeerIp, Y1, IP4_TYPE_ICMP, IP4_HDR_MF_FLAG,
                    IcmpMsg(ICMP4_ECHO_REQUEST, 4660, 7, Hello))),
     Carried("udp", NoInt, ETH_TYPE_IP4, MacA, PeerIp, Y1, 7,
             Ip4Pkt(PeerIp, Y1, IP4_TYPE_UDP, 0,
                    makeUdp4Hdr(PeerIp, 9, Y1, 7, Hello) \o Hello)),
     Carried("other", NoInt, 34525, MacA, PeerIp, Y1, NoInt, Hello),
     Carried("other", NoInt, 2053, MacA, PeerIp, Y1, NoInt,
             ArpPkt(ARP_OP_REPLY, MacA, PeerIp, MyMacBytes, Y1))}

\* VLAN 100, and a tag whose control information reads 0x0800
Tags == {100, ETH_TYPE_IP4}

EthFrames ==
    Untagged \cup {[g EXCEPT !.tci = t] : g \in Untagged, t \in Tags}

\* the record of a call: what was received or entered, the link state
\* read, the handler calls made, the exception raised and the ARP entry of
\* g.src before the call
EthOp(name, g, link, calls, exc) ==
    [op |-> name, g |-> g, link |-> link, calls |-> calls, exc |-> exc,
     was |-> IF g.src # NoIp /\ PackIp(g.src) \in DOMAIN ntw.arpTable
             THEN <<ntw.arpTable[PackIp(g.src)]>> ELSE <<>>]

EthInit ==
    /\ dhcp = DhcpInit
    /\ ntw = registerUdp4Callback(setIPv4(NtwInit, Y1, Mask24, SrvLocal), 7, "keep")
    /\ nic = NicInit(ENC28J60_RX_BUFFER_START)
    /\ now = 0
    /\ txFrames = <<>>
    /\ last = EthOp("init", Carried("none", NoInt, NoInt, MacA, Y1, Y1, NoInt, <<>>),
                    FALSE, <<>>, "none")

\* rxAllPkt hands a received frame to procEth; link is the link state a
\* SendPacket call made meanwhile reads
EthRx ==
    \E g \in EthFrames, link \in BOOLEAN :
        LET r == procEth(ntw, EthBytes(g), <<link>>)
        IN  /\ r.n.ip4TxCount <= EthMaxTx
            /\ ntw' = r.n
            /\ txFrames' = r.tx
            /\ last' = EthOp("procEth", g, link, r.calls, r.exc)
            /\ UNCHANGED <<dhcp, now, nic>>

\* the application calls addArpEntry(ip, mac) with a packed address
EthAddArpEntry ==
    \E ip \in {Y2}, mac \in {MacA, MacB} :
        /\ ntw' = addArpEntryInt(ntw, PackIp(ip), mac)
        /\ txFrames' = <<>>
        /\ last' = EthOp("addArpEntry",
                         Carried("int", NoInt, NoInt, mac, ip, ip, PackIp(ip), <<>>),
                         FALSE, <<>>, "none")
        /\ UNCHANGED <<dhcp, now, nic>>

EthNext ==
    \/ EthRx
    \/ EthAddArpEntry

EthSpec == EthInit /\ [][EthNext]_vars

-----------------------------------------------------------------------------
(* IdentSpec: the configured host sends datagrams of every kind, one after *)
(* the other: UDP to the resolved peer in one frame and in fragments, UDP  *)
(* to an unresolved host, UDP broadcast, TCP, and echo replies.            *)

\* the datagrams built from either start of the counter
IdentMaxTx == 3

IdentStart(count) == IF count >= 65534 THEN 65534 ELSE 0

IdentMore == ntw.ip4TxCount - IdentStart(ntw.ip4TxCount) < IdentMaxTx

IdentSendUdp4 ==
    \E dst \in {PeerIp, Y2}, dp \in Ports, len \in {5, 1473}, link1 \in BOOLEAN, link2 \in BOOLEAN :
        LET data == IF len = 5 THEN Hello ELSE FragData(len)
            s == sendUdp4(ntw, dst, dp, data, len, 7, <<link1, link2>>)
        IN  /\ IdentMore
            /\ len = 5 => link2
            /\ dst = Y2 => (len = 5 /\ link1 /\ dp = 7)
            /\ ntw' = s.n
            /\ txFrames' = s.tx
            /\ last' = SendOp("sendUdp4", dp, len, <<link1, link2>>, ntw.ip4TxCount, s.ret)
            /\ UNCHANGED <<dhcp, now, nic>>

IdentSendUdp4Bcast ==
    \E dp \in Ports, link \in BOOLEAN :
        LET s == sendUdp4Bcast(ntw, dp, 7, Hello, Len(Hello), link)
        IN  /\ IdentMore
            /\ ntw' = s.n
            /\ txFrames' = s.tx
            /\ last' = SendOp("sendUdp4Bcast", dp, Len(Hello), <<link>>, ntw.ip4TxCount, s.ret)
            /\ UNCHANGED <<dhcp, now, nic>>

\* the application calls sendTcp4(PeerIp, 80, 1234, b"hello", 1000, 2000, PSH|ACK)
IdentSendTcp4 ==
    \E link \in BOOLEAN :
        LET s == sendTcp4(ntw, PeerIp, 80, 1234, Hello, 1000, 2000, 24, link)
        IN  /\ IdentMore
            /\ ntw' = s.n
            /\ txFrames' = s.tx
            /\ last' = SendOp("sendTcp4", 80, Len(Hello), <<link>>, ntw.ip4TxCount, s.ret)
            /\ UNCHANGED <<dhcp, now, nic>>

\* an echo request arrives and is answered
IdentRxEcho ==
    \E link \in BOOLEAN :
        LET g == Carried("icmp", NoInt, ETH_TYPE_IP4, MacA, PeerIp, Y1, ICMP4_ECHO_REQUEST,
                         Ip4Pkt(PeerIp, Y1, IP4_TYPE_ICMP, 0,
                                IcmpMsg(ICMP4_ECHO_REQUEST, 4660, 7, Hello)))
            r == procEth(ntw, EthBytes(g), <<link>>)
        IN  /\ IdentMore
            /\ ntw' = r.n
            /\ txFrames' = r.tx
            /\ last' = SendOp("sendIcmp4EchoReply", NoInt, Len(Hello), <<link>>,
                              ntw.ip4TxCount, <<>>)
            /\ UNCHANGED <<dhcp, now, nic>>

IdentNext ==
    \/ IdentSendUdp4
    \/ IdentSendUdp4Bcast
    \/ IdentSendTcp4
    \/ IdentRxEcho

IdentSpec == FragInit /\ [][IdentNext]_vars

-----------------------------------------------------------------------------
(* SumSpec: a checksum is computed over a byte sequence whose checksum     *)
(* field is zero and stored in the field, as makeIp4Hdr, makeUdp4Hdr and   *)
(* sendIcmp4EchoReply do.  last holds the sequence and the offset of the   *)
(* field, txFrames the sequence with the checksum in place.                *)

SumLen == 9

\* the lengths: every length from 2 to SumLen, a minimal frame, and the two
\* largest frames
SumLens == (2..SumLen) \cup {59, 60, ENC28J60_ETH_TX_BUFFER_SIZE - 1, ENC28J60_ETH_TX_BUFFER_SIZE}

\* byte sequences: constant ones (0x00, 0x80, 0xFF) and varying ones
SumPatterns == {<<0, 0>>, <<0, 128>>, <<0, 255>>, <<1, 0>>, <<37, 11>>, <<255, 254>>}

SumBytes(n, p) == [i \in 1..n |-> (i * p[1] + p[2]) % 256]

\* sequences whose word sum is 0x1FFFF once the field is zeroed, of even
\* and of odd length: folding it once leaves a carry
SumCarries == {<<255, 255, 255, 255, 0, 1, 0, 0>>, <<0, 0, 255, 255, 255, 0, 1>>}

\* the 16-bit-aligned offsets of a field in n bytes: the first, the one of
\* the IPv4 header, the one of the UDP header and the last
SumOffsets(n) == {o \in {0, 2, 6, 10, 2 * ((n - 2) \div 2)} : o + 2 <= n}

\* chksm = calcChecksum(hdr); hdr[o] = (chksm >> 8) & 0xFF;
\* hdr[o + 1] = chksm & 0xFF, for a sequence whose field holds zero
StoreChecksum(z, o) ==
    [z EXCEPT ![o + 1] = (calcChecksum(z, 0) \div 256) % 256,
              ![o + 2] = calcChecksum(z, 0) % 256]

\* a sequence with a zeroed checksum field is handed over
SumInit ==
    /\ dhcp = DhcpInit
    /\ ntw = NtwInit
    /\ nic = NicInit(ENC28J60_RX_BUFFER_START)
    /\ now = 0
    /\ txFrames = <<>>
    /\ \E B \in SumCarries \cup {SumBytes(n, p) : n \in SumLens, p \in SumPatterns} :
           \E o \in SumOffsets(Len(B)) :
               last = [op |-> "new", offset |-> o,
                       data |-> [B EXCEPT ![o + 1] = 0, ![o + 2] = 0]]

\* the checksum is computed and stored in the field
SumStore ==
    /\ last.op = "new"
    /\ txFrames' = <<StoreChecksum(last.data, last.offset)>>
    /\ last' = [last EXCEPT !.op = "checksum"]
    /\ UNCHANGED <<dhcp, ntw, nic, now>>

SumNext ==
    \/ SumStore

SumSpec == SumInit /\ [][SumNext]_vars

-----------------------------------------------------------------------------
(* PhySpec: WritePhyReg and ReadPhyReg statement by statement, with the    *)
(* chip's MII unit.  nic holds the position of the driver (pc), the call   *)
(* in progress, the MII registers, the BUSY flag of MISTAT, the value of   *)
(* MISTAT the driver read last, the PHY registers and the number of polls  *)
(* made, counted up to MaxPolls.  The chip ends an operation by clearing   *)
(* BUSY; nothing in the model obliges it to.                               *)

ENC28J60_MISTAT_BUSY == 1

MaxPolls == 3

\* the PHY registers accessed and the values written
PhyRegs == {ENC28J60_PHCON1, ENC28J60_PHCON2, ENC28J60_PHSTAT2, ENC28J60_PHIE}

PhyData == {0, 256, 1024}

PhyOp(name, address, data, ret, polls) ==
    [op |-> name, address |-> address, data |-> data, ret |-> ret, polls |-> polls]

PhyInit ==
    /\ dhcp = DhcpInit
    /\ ntw = NtwInit
    /\ now = 0
    /\ txFrames = <<>>
    /\ nic = [pc |-> "idle", op |-> "none", MIREGADR |-> 0, MICMD |-> 0, MIWR |-> 0,
              MIRD |-> 0, BUSY |-> FALSE, mistat |-> 0, polls |-> 0,
              phy |-> [a \in {BitAnd(r, REG_ADDR_MASK) : r \in PhyRegs} |-> 0]]
    /\ last = PhyOp("new", NoInt, NoInt, NoInt, 0)

\* WritePhyReg(address, data) up to the wait: MIREGADR, MIWRL and MIWRH are
\* written; the write of MIWRH starts the operation and the chip sets BUSY
PhyCallWrite ==
    \E address \in PhyRegs, data \in PhyData :
        /\ nic.pc = "idle"
        /\ nic' = [nic EXCEPT !.pc = "read", !.op = "WritePhyReg",
                              !.MIREGADR = BitAnd(address, REG_ADDR_MASK),
                              !.MIWR = MSB(data) * 256 + LSB(data),
                              !.BUSY = TRUE, !.polls = 0]
        /\ last' = PhyOp("call WritePhyReg", address, data, NoInt, 0)
        /\ UNCHANGED <<dhcp, ntw, now, txFrames>>

\* ReadPhyReg(address) up to the wait: MIREGADR is written and MICMD.MIIRD
\* set, which starts the operation
PhyCallRead ==
    \E address \in PhyRegs :
        /\ nic.pc = "idle"
        /\ nic' = [nic EXCEPT !.pc = "read", !.op = "ReadPhyReg",
                              !.MIREGADR = BitAnd(address, REG_ADDR_MASK),
                              !.MICMD = ENC28J60_MICMD_MIIRD,
                              !.BUSY = TRUE, !.polls = 0]
        /\ last' = PhyOp("call ReadPhyReg", address, NoInt, NoInt, 0)
        /\ UNCHANGED <<dhcp, ntw, now, txFrames>>

\* the loop condition reads MISTAT
PhyReadMistat ==
    /\ nic.pc = "read"
    /\ nic' = [nic EXCEPT !.pc = "test",
                          !.mistat = IF nic.BUSY THEN ENC28J60_MISTAT_BUSY ELSE 0,
                          !.polls = IF @ < MaxPolls THEN @ + 1 ELSE @]
    /\ UNCHANGED <<dhcp, ntw, now, txFrames, last>>

\* while 0 != (MISTAT & BUSY): pass
PhyStillBusy ==
    /\ nic.pc = "test"
    /\ 0 # BitAnd(nic.mistat, ENC28J60_MISTAT_BUSY)
    /\ nic' = [nic EXCEPT !.pc = "read"]
    /\ UNCHANGED <<dhcp, ntw, now, txFrames, last>>

\* the loop ends: WritePhyReg returns; ReadPhyReg clears MICMD, reads MIRDL
\* and MIRDH and returns the value
PhyReturn ==
    /\ nic.pc = "test"
    /\ 0 = BitAnd(nic.mistat, ENC28J60_MISTAT_BUSY)
    /\ nic' = [nic EXCEPT !.pc = "idle", !.MICMD = 0]
    /\ last' = [last EXCEPT !.op = nic.op, !.polls = nic.polls,
                            !.ret = IF nic.op = "ReadPhyReg"
                                    THEN BitOr(LSB(nic.MIRD), MSB(nic.MIRD) * 256)
                                    ELSE NoInt]
    /\ UNCHANGED <<dhcp, ntw, now, txFrames>>

\* the chip ends the operation: the PHY register is written or read and
\* BUSY cleared
PhyChipDone ==
    /\ nic.BUSY
    /\ nic' = IF nic.op = "WritePhyReg"
              THEN [nic EXCEPT !.BUSY = FALSE, !.phy[nic.MIREGADR] = nic.MIWR]
              ELSE [nic EXCEPT !.BUSY = FALSE, !.MIRD = nic.phy[nic.MIREGADR]]
    /\ UNCHANGED <<dhcp, ntw, now, txFrames, last>>

\* the statements of the driver inside a call
PhyDriver ==
    \/ PhyReadMistat
    \/ PhyStillBusy
    \/ PhyReturn

PhyNext ==
    \/ PhyCallWrite
    \/ PhyCallRead
    \/ PhyDriver
    \/ PhyChipDone

\* the interpreter goes on executing the statements of a call in progress;
\* the application need not call again and the chip need not finish
PhySpec == PhyInit /\ [][PhyNext]_vars /\ WF_vars(PhyDriver)

-----------------------------------------------------------------------------
(* DrvSpec: the driver calls at the level of SPI transactions, from the    *)
(* construction of the driver on.  nic holds the cached bank and           *)
(* nextPacket (NoInt until init() assigns them), the chip's ECON1, whether *)
(* init() has run, and the transactions of the last call.  A call is one   *)
(* step; the chip may end a transmission before it, after it (ChipTxDone)  *)
(* or between two of its transactions (done, kept in last.done).           *)

MaxBusy == 1
MaxDone == 24

\* ECON1 when the driver is constructed: the power-on value, or what an
\* earlier run of the program left in the chip
ChipLeft == {0, ENC28J60_ECON1_RXEN + 3, ENC28J60_ECON1_RXEN + ENC28J60_ECON1_TXRTS + 2}

DrvBytes(n, k) == [i \in 1..n |-> (i * 37 + k) % 256]

\* the chunk lists handed to SendPacket: frames of 47, 1518 and 1519 bytes
DrvChunks ==
    {<<DrvBytes(14, 1), DrvBytes(20, 3), DrvBytes(8, 4), DrvBytes(5, 5)>>,
     <<DrvBytes(14, 1), DrvBytes(1504, 6)>>,
     <<DrvBytes(14, 1), DrvBytes(1505, 7)>>}

\* the 6-byte headers ReceivePacket reads: <<next packet, length, status>>
DrvHeaders == {<<66, 60, 128>>, <<0, 64, 192>>, <<66, 60, 0>>}

DrvOp(name, chunks, link, ret, done) ==
    [op |-> name, chunks |-> chunks, link |-> link, ret |-> ret, done |-> done]

DrvSpecInit ==
    /\ dhcp = DhcpInit
    /\ ntw = NtwInit
    /\ nic \in {[currentBank |-> NoInt, nextPacket |-> NoInt, ECON1 |-> e, spi |-> <<>>,
                 up |-> FALSE, txdone |-> NoInt] : e \in ChipLeft}
    /\ now = 0
    /\ txFrames = <<>>
    /\ last = DrvOp("new", <<>>, FALSE, NoInt, NoInt)

\* when the chip may end the transmission in progress during a call that
\* makes the transactions of r: before one of them
TxDones(c, r) ==
    IF BitAnd(c.ECON1, ENC28J60_ECON1_TXRTS) # 0
    THEN {NoInt} \cup {d \in 0..MaxDone : d < Len(r.spi)}
    ELSE {NoInt}

\* the driver at the start of a call during which the chip ends the
\* transmission after done transactions
Run(c, done) == [c EXCEPT !.spi = <<>>, !.txdone = done]

\* the driver when the call has returned
Returned(r) == [r EXCEPT !.txdone = NoInt]

\* init(); the reset command clears ECON1, so that the end of a
\* transmission shows in the transactions only before it
DrvCallInit ==
    \E fullDuplex \in BOOLEAN, enableMulticastRx \in BOOLEAN, busy \in 0..MaxBusy,
       done \in TxDones(nic, SoftReset(Called(nic))) :
        /\ nic' = [Returned(DrvInit(Run(nic, done), MyMacBytes, fullDuplex, enableMulticastRx, busy))
                     EXCEPT !.up = TRUE]
        /\ last' = DrvOp("init", <<>>, FALSE, NoInt, done)
        /\ UNCHANGED <<dhcp, ntw, now, txFrames>>

\* SendPacket(chunks)
DrvCallSendPacket ==
    \E chunks \in DrvChunks, link \in BOOLEAN, busy \in 0..MaxBusy :
      \E done \in TxDones(nic, SendPacketSpi(Called(nic), chunks, link, busy)) :
        /\ nic.up
        /\ nic' = Returned(SendPacketSpi(Run(nic, done), chunks, link, busy))
        /\ last' = DrvOp("SendPacket", chunks, link, SendPacket(ChunksLen(chunks), link), done)
        /\ UNCHANGED <<dhcp, ntw, now, txFrames>>

\* ReceivePacket(rxBuffer)
DrvCallReceivePacket ==
    \E cnt \in {0, 1}, hdr \in DrvHeaders, cap \in {SmallBuffer, 1518} :
      \E done \in TxDones(nic, ReceivePacketSpi(Called(nic), cnt, hdr, cap)) :
        /\ nic.up
        /\ nic' = Returned(ReceivePacketSpi(Run(nic, done), cnt, hdr, cap))
        /\ last' = DrvOp("ReceivePacket", <<>>, FALSE, cnt, done)
        /\ UNCHANGED <<dhcp, ntw, now, txFrames>>

\* IsLinkUp()
DrvCallIsLinkUp ==
    \E busy \in 0..MaxBusy :
      \E done \in TxDones(nic, IsLinkUp(Called(nic), busy)) :
        /\ nic.up
        /\ nic' = Returned(IsLinkUp(Run(nic, done), busy))
        /\ last' = DrvOp("IsLinkUp", <<>>, FALSE, NoInt, done)
        /\ UNCHANGED <<dhcp, ntw, now, txFrames>>

\* IsLinkStateChanged(); last.link is the EIR.LINKIF read, last.ret the
\* value returned
DrvCallIsLinkStateChanged ==
    \E linkif \in BOOLEAN, busy \in 0..MaxBusy :
      \E done \in TxDones(nic, IsLinkStateChanged(Called(nic), linkif, busy)) :
        /\ nic.up
        /\ nic' = Returned(IsLinkStateChanged(Run(nic, done), linkif, busy))
        /\ last' = DrvOp("IsLinkStateChanged", <<>>, linkif, IF linkif THEN 1 ELSE 0, done)
        /\ UNCHANGED <<dhcp, ntw, now, txFrames>>

\* GetRxPacketCnt()
DrvCallGetRxPacketCnt ==
    \E done \in TxDones(nic, GetRxPacketCnt(Called(nic))) :
        /\ nic.up
        /\ nic' = Returned(GetRxPacketCnt(Run(nic, done)))
        /\ last' = DrvOp("GetRxPacketCnt", <<>>, FALSE, NoInt, done)
        /\ UNCHANGED <<dhcp, ntw, now, txFrames>>

\* the chip ends a transmission and clears ECON1.TXRTS
ChipTxDone ==
    /\ BitAnd(nic.ECON1, ENC28J60_ECON1_TXRTS) # 0
    /\ nic' = [Called(nic) EXCEPT !.ECON1 = @ - ENC28J60_ECON1_TXRTS]
    /\ last' = DrvOp("txdone", <<>>, FALSE, NoInt, NoInt)
    /\ UNCHANGED <<dhcp, ntw, now, txFrames>>

DrvNext ==
    \/ DrvCallInit
    \/ DrvCallSendPacket
    \/ DrvCallReceivePacket
    \/ DrvCallIsLinkUp
    \/ DrvCallIsLinkStateChanged
    \/ DrvCallGetRxPacketCnt
    \/ ChipTxDone

DrvSpec == DrvSpecInit /\ [][DrvNext]_vars

-----------------------------------------------------------------------------
(* Properties of the driver.  In a step of NicSpec last'.x is the integer  *)
(* argument of the call (the total length, the buffer size) and nic'.ops   *)
(* the accesses the call made.                                             *)

\* the access o writes a transmit register or the transmit buffer
TxAccess(o) ==
    IF o[1] \in {"WriteBuffer", "ReadBuffer"} THEN o[1] = "WriteBuffer"
    ELSE o[1] # "ReadPhyReg" /\ o[2] \in {"ECON1", "EIR", "ETXST", "EWRPT", "ETXND"}

\* the number of PKTDEC pulses among the accesses ops
PktDecs(ops) ==
    Cardinality({i \in 1..Len(ops) : ops[i] = <<"SetBit", "ECON2", "PKTDEC">>})

-----------------------------------------------------------------------------
(* C11 *)

\* C11: SendPacket starts a transmission (writes the transmit buffer and
\* sets ECON1.TXRTS) only if the total length is at most 1518 and the link
\* is up; a longer frame returns -1, a link that is down returns -2, and in
\* both cases no transmit register and no buffer write is issued; on
\* success the total byte count is returned.
C11_SendPacket ==
    [][last'.op = "SendPacket" =>
        LET ops == nic'.ops
            noTx == \A i \in 1..Len(ops) : ~TxAccess(ops[i])
        IN  /\ last'.x > 1518 => (last'.ret = <<-1>> /\ noTx /\ NoneSent)
            /\ (last'.x <= 1518 /\ ~last'.link2) =>
                  (last'.ret = <<-2>> /\ noTx /\ NoneSent)
            /\ (last'.x <= 1518 /\ last'.link2) =>
                  /\ last'.ret = <<last'.x>>
                  /\ \E i \in 1..Len(ops) : ops[i] = <<"WriteBuffer", last'.x>>
                  /\ ops[Len(ops)] = <<"SetBit", "ECON1", "TXRTS">>
                  /\ Len(txFrames') = 1]_vars

\* a frame of 1518 bytes was refused because the link was down
C11_Witness ==
    /\ last.op = "SendPacket" /\ last.x = 1518 /\ ~last.link2
    /\ last.ret = <<-2>>
    /\ \A i \in 1..Len(nic.ops) : ~TxAccess(nic.ops[i])

-----------------------------------------------------------------------------
(* C12 *)

\* C12: a ReceivePacket call sets ECON2.PKTDEC exactly once if it found
\* EPKTCNT > 0, for a good and a bad frame alike, and not at all if it found
\* EPKTCNT = 0, when it returns 0 and leaves nextPacket, ERXRDPT and the
\* caller's buffer unchanged; so the number of PKTDEC pulses equals the
\* number of frames read, after any sequence of calls.
C12_PktDecOnce ==
    [][last'.op = "ReceivePacket" =>
        /\ IF nic.EPKTCNT > 0
           THEN /\ PktDecs(nic'.ops) = 1
                /\ nic'.pktdec = nic.pktdec + 1
                /\ nic'.read = nic.read + 1
                /\ nic'.EPKTCNT = nic.EPKTCNT - 1
           ELSE /\ PktDecs(nic'.ops) = 0
                /\ last'.ret = <<0>>
                /\ nic'.pktdec = nic.pktdec /\ nic'.read = nic.read
                /\ nic'.nextPacket = nic.nextPacket
                /\ nic'.ERXRDPT = nic.ERXRDPT
                /\ nic'.rxBuffer = nic.rxBuffer
        /\ nic'.pktdec = nic'.read]_vars

\* a call found nothing after a good and a bad frame had been read
C12_Witness ==
    /\ last.op = "ReceivePacket" /\ last.ret = <<0>>
    /\ nic.pktdec = 2 /\ nic.read = 2 /\ nic.stored = 2
    /\ PktDecs(nic.ops) = 0

-----------------------------------------------------------------------------
(* C13 *)

\* C13: when the frame at nextPacket has RECEIVED_OK = 0, ReceivePacket
\* returns -1, copies nothing into the caller's buffer, and still takes
\* nextPacket from the frame's header, advances ERXRDPT and decrements the
\* packet count, so that the following call reads the next frame of the
\* ring: nextPacket is the address of the oldest frame not yet read.
C13_BadFrameSkipped ==
    [][(last'.op = "ReceivePacket" /\ nic.EPKTCNT > 0 /\ ~Head(nic.ring).ok) =>
        /\ last'.ret = <<-1>>
        /\ nic'.rxBuffer = nic.rxBuffer
        /\ \A i \in 1..Len(nic'.ops) : nic'.ops[i][1] = "ReadBuffer" => nic'.ops[i][2] = 6
        /\ nic'.nextPacket = Head(nic.ring).next
        /\ nic'.ERXRDPT = IF nic'.nextPacket = 0 THEN 6143 ELSE nic'.nextPacket - 1
        /\ nic'.EPKTCNT = nic.EPKTCNT - 1
        /\ nic'.ring = Tail(nic.ring)
        /\ nic'.ring # <<>> => Head(nic'.ring).at = nic'.nextPacket]_vars

\* a bad frame was skipped and a good one waits at nextPacket
C13_Witness ==
    /\ last.op = "ReceivePacket" /\ last.ret = <<-1>>
    /\ nic.ring # <<>> /\ Head(nic.ring).ok /\ Head(nic.ring).at = nic.nextPacket
    /\ nic.rxBuffer = <<>>

-----------------------------------------------------------------------------
(* C14 *)

\* the frames <<id, length>> of the ring that ReceivePacket returns
Good(ring) ==
    LET ok(f) == f.ok
        g == SelectSeq(ring, ok)
    IN  [i \in 1..Len(g) |-> <<g[i].id, g[i].len>>]

\* C14: rxAllPkt hands the frames held by the NIC to procEth one at a time
\* in the order of arrival, skips the frames for which ReceivePacket
\* returned <= 0, and returns only when EPKTCNT reads 0, having consumed
\* every pending frame and those that arrived meanwhile.
C14_Drained ==
    [][last'.op = "rxAllPkt" =>
        LET d == nic'.delivered
            n == Len(Good(nic.ring))
        IN  /\ nic'.EPKTCNT = 0 /\ nic'.ring = <<>>
            /\ nic'.read = nic'.stored
            /\ nic'.read = nic.read + Len(nic.ring) + last'.x
            /\ Len(d) >= n /\ Len(d) <= n + last'.x
            /\ SubSeq(d, 1, n) = Good(nic.ring)
            /\ \A i \in 1..Len(d) : i > n => d[i][1] > nic.stored
            /\ \A i, j \in 1..Len(d) : i < j => d[i][1] < d[j][1]]_vars

\* three frames were pending, the second bad: the first and third were
\* handed over in this order
C14_Witness ==
    /\ last.op = "rxAllPkt"
    /\ nic.stored = 3 /\ nic.read = 3 /\ nic.EPKTCNT = 0
    /\ Len(nic.delivered) = 2
    /\ nic.delivered[1][1] = 1 /\ nic.delivered[2][1] = 3

-----------------------------------------------------------------------------
(* Properties of the registries and of the UDP receive and send paths.     *)
(* In a step of DemuxSpec or UdpSpec that hands a frame to procIp4,        *)
(* last'.dgram holds the fields the frame was built from and last'.calls   *)
(* the handler calls made, each with what the handler saw.                 *)

\* the registry procIp4 selects for a datagram to dst: "none" if dst is
\* neither the host's address nor 255.255.255.255
Selected(n, dst) ==
    IF dst = n.myIp4Addr THEN "udp4UniBind"
    ELSE IF dst = IP4_ADDR_BCAST THEN "udp4BcastBind"
    ELSE "none"

\* the call of the handler of registry r for the datagram g
CallOf(n, r, g) ==
    [cb |-> n[r][g.dport], bcast |-> (r = "udp4BcastBind"),
     udp_srcPort |-> g.sport, udp_dstPort |-> g.dport, udp_data |-> g.data]

\* g is an unfragmented IPv4 UDP datagram without options
PlainUdp(g) ==
    g.ver = 4 /\ g.ihl = 5 /\ g.ff % 16384 = 0 /\ g.proto = 17

\* a registry of n has an entry for the datagram g
HasHandler(n, g) ==
    /\ Selected(n, g.dst) # "none"
    /\ g.dport \in DOMAIN n[Selected(n, g.dst)]

-----------------------------------------------------------------------------
(* C15 *)

\* C15: when the handler called for a packet on port p registers, replaces
\* or removes the registry entry of p, its own included, the call in flight
\* completes, the packet is handed to one handler only, the one registered
\* when the packet was dispatched, and the change governs the next packet:
\* after a removal the same packet arriving again is dropped, after a
\* replacement it goes to the new handler.
C15_NextDispatch ==
    [][last'.op = "procIp4" =>
        LET g == last'.dgram
            r == Selected(ntw, g.dst)
            other == IF r = "udp4UniBind" THEN "udp4BcastBind" ELSE "udp4UniBind"
            p == g.dport
        IN  /\ Len(last'.calls) <= 1
            /\ last'.calls # <<>> =>
                 LET cb == last'.calls[1].cb
                 IN  /\ r # "none" /\ p \in DOMAIN ntw[r] /\ cb = ntw[r][p]
                     /\ cb = "keep" => ntw' = ntw
                     /\ cb = "drop" => p \notin DOMAIN ntw'[r] /\ ntw'[other] = ntw[other]
                     /\ cb = "swap" => (p \in DOMAIN ntw'[r] /\ ntw'[r][p] = "keep"
                                        /\ ntw'[other] = ntw[other])
                     /\ cb = "move" => (p \notin DOMAIN ntw'[r]
                                        /\ p \in DOMAIN ntw'[other] /\ ntw'[other][p] = "move")
            /\ (last.op = "procIp4" /\ last.dgram = g /\ last.calls # <<>>) =>
                 LET was == last.calls[1].cb
                 IN  /\ was \in {"drop", "move"} => last'.calls = <<>>
                     /\ was \in {"swap", "keep"} =>
                            (last'.calls # <<>> /\ last'.calls[1].cb = "keep")]_vars

\* the handler of port 7 removed its entry while it ran, and the next
\* datagram to port 7 of the host was dropped
C15_Witness ==
    /\ last.op = "procIp4" /\ last.prior = <<"drop">> /\ last.calls = <<>>
    /\ last.dgram = Dgram(Y1, 7, 4, 5, 0, IP4_TYPE_UDP, Hello, 0)
    /\ ntw.myIp4Addr = Y1 /\ 7 \notin DOMAIN ntw.udp4UniBind

-----------------------------------------------------------------------------
(* C16 *)

\* C16: in each of the three registries, registering a handler for a port
\* that already has this handler changes nothing, registering None removes
\* the entry of the port and changes nothing when the port has no entry,
\* and a registration changes neither the other two registries, nor the
\* entries of other ports, nor any other attribute of the host.
C16_Registries ==
    [][last'.op = "register" =>
        LET r == last'.reg
            p == last'.port
            cb == last'.cb
        IN  /\ \A f \in (DOMAIN ntw) \ {r} : ntw'[f] = ntw[f]
            /\ (DOMAIN ntw'[r]) \ {p} = (DOMAIN ntw[r]) \ {p}
            /\ \A k \in (DOMAIN ntw[r]) \ {p} : ntw'[r][k] = ntw[r][k]
            /\ cb # "None" => (p \in DOMAIN ntw'[r] /\ ntw'[r][p] = cb)
            /\ (cb # "None" /\ p \in DOMAIN ntw[r] /\ ntw[r][p] = cb) => ntw' = ntw
            /\ cb = "None" => p \notin DOMAIN ntw'[r]
            /\ (cb = "None" /\ p \notin DOMAIN ntw[r]) => ntw' = ntw]_vars

\* None was registered for TCP port 7 while UDP port 7 had handlers in both
\* registries and UDP port 9 a unicast handler
C16_Witness ==
    /\ last.op = "register" /\ last.reg = "tcp4UniBind" /\ last.cb = "None"
    /\ last.port = 7 /\ 7 \notin DOMAIN ntw.tcp4UniBind
    /\ DOMAIN ntw.udp4UniBind = {7, 9} /\ DOMAIN ntw.udp4BcastBind = {7}

-----------------------------------------------------------------------------
(* C17 *)

\* C17: an unfragmented IPv4 UDP datagram without options whose checksum
\* field is zero or valid goes to the handler of its destination port in
\* the unicast registry if its destination is the host's address, in the
\* broadcast registry if its destination is 255.255.255.255; the handler
\* is called once; if the port has no entry in that registry, or the
\* destination is neither address, no handler is called and nothing is
\* transmitted.
C17_Demux ==
    [][(last'.op = "procIp4" /\ PlainUdp(last'.dgram)
        /\ last'.dgram.chk \in {0, Valid(last'.dgram).chk}) =>
        LET g == last'.dgram
        IN  /\ last'.calls = IF HasHandler(ntw, g)
                             THEN <<CallOf(ntw, Selected(ntw, g.dst), g)>> ELSE <<>>
            /\ ~HasHandler(ntw, g) => (txFrames' = <<>> /\ ntw' = ntw)]_vars

\* a datagram to 255.255.255.255 went to the broadcast handler of port 7
\* while another handler was registered for unicast port 7
C17_Witness ==
    /\ last.op = "procIp4" /\ last.dgram.dst = IP4_ADDR_BCAST
    /\ last.dgram.chk # 0
    /\ Len(last.calls) = 1 /\ last.calls[1].bcast /\ last.calls[1].cb = "keep"
    /\ 7 \in DOMAIN ntw.udp4UniBind /\ ntw.udp4UniBind[7] = "drop"

-----------------------------------------------------------------------------
(* C18 *)

\* C18 as stated: a datagram for a registered port reaches the handler iff
\* its checksum field is zero or equals the checksum computed over the
\* pseudo-header, the header with a zero checksum field and the payload.
C18_ComputedEqualsReceived ==
    [][(last'.op = "procIp4" /\ PlainUdp(last'.dgram) /\ HasHandler(ntw, last'.dgram)) =>
        (last'.calls # <<>>
         <=> (last'.dgram.chk = 0 \/ last'.dgram.chk = Rfc768(last'.dgram)))]_vars

\* C18: a datagram for a registered port reaches the handler iff its
\* checksum field is zero or equals the computed checksum, where a computed
\* checksum of 0x0000 is compared as 0xFFFF; a datagram with any other
\* checksum field never reaches a handler.
C18_ChecksumVerified ==
    [][(last'.op = "procIp4" /\ PlainUdp(last'.dgram) /\ HasHandler(ntw, last'.dgram)) =>
        LET g == last'.dgram
            expect == IF Rfc768(g) = 0 THEN 65535 ELSE Rfc768(g)
        IN  /\ (g.chk = 0 \/ g.chk = expect) =>
                 last'.calls = <<CallOf(ntw, Selected(ntw, g.dst), g)>>
            /\ (g.chk # 0 /\ g.chk # expect) => last'.calls = <<>>]_vars

\* a datagram whose computed checksum is 0x0000 and whose field is 0xFFFF
\* reached the handler
C18_Witness ==
    /\ last.op = "procIp4" /\ Rfc768(last.dgram) = 0 /\ last.dgram.chk = 65535
    /\ Len(last.calls) = 1 /\ last.calls[1].udp_data = last.dgram.data

-----------------------------------------------------------------------------
(* C19 *)

\* C19: the checksum field of a UDP header emitted by sendUdp4 or
\* sendUdp4Bcast is not zero: when the computation over pseudo-header,
\* header and payload yields 0x0000, the field on the wire is 0xFFFF.
C19_EmittedNonZero ==
    [][(last'.op \in {"sendUdp4", "sendUdp4Bcast"} /\ txFrames' # <<>>) =>
        LET f == txFrames'[1]
            w == Udp4Wire(f)
            field == w[27] * 256 + w[28]
            g == [src |-> f.ip_src, dst |-> f.ip_dst, sport |-> f.sport,
                  dport |-> f.dport, data |-> f.data]
        IN  /\ field # 0
            /\ field = IF Rfc768(g) = 0 THEN 65535 ELSE Rfc768(g)]_vars

-----------------------------------------------------------------------------
(* C20 *)

\* C20: a datagram built by makeIp4Hdr, makeUdp4Hdr and the data, sent to
\* the address of a host that has a handler on the destination port,
\* passes the checksum verification and the handler sees the data, the
\* source port and the destination port it was built from.
C20_RoundTrip ==
    [][(last'.op = "rxEmitted" /\ last'.dgram.dport \in DOMAIN ntw.udp4UniBind) =>
        last'.calls = <<CallOf(ntw, "udp4UniBind", last'.dgram)>>]_vars

\* an odd payload from port 5000 was delivered to the handler of port 7,
\* after another delivery
C20_Witness ==
    /\ last.op = "rxEmitted" /\ last.prior = <<"keep">>
    /\ last.dgram.sport = 5000 /\ last.dgram.data = <<101>>
    /\ Len(last.calls) = 1 /\ last.calls[1].udp_data = <<101>>
    /\ last.calls[1].udp_srcPort = 5000 /\ last.calls[1].udp_dstPort = 7

-----------------------------------------------------------------------------
(* C29 *)

\* C29: after every ReceivePacket call that dequeues a frame, ERXRDPT is
\* 0x17FF if the nextPacket read from the frame's header is 0x0000 and
\* nextPacket - 1 otherwise; the call writes ERXRDPT once, and never with
\* the value of nextPacket.
C29_ReadPointerLags ==
    [][(last'.op = "ReceivePacket" /\ nic.EPKTCNT > 0) =>
        LET np == Head(nic.ring).next
            writes == {i \in 1..Len(nic'.ops) :
                         nic'.ops[i][1] = "WriteReg" /\ nic'.ops[i][2] = "ERXRDPT"}
        IN  /\ nic'.nextPacket = np
            /\ nic'.ERXRDPT = IF np = 0 THEN 6143 ELSE np - 1
            /\ nic'.ERXRDPT # np
            /\ Cardinality(writes) = 1
            /\ \A i \in writes : nic'.ops[i][3] = nic'.ERXRDPT]_vars

\* a frame that ended at the top of the ring was read: nextPacket wrapped
\* to 0x0000 and ERXRDPT is 0x17FF
C29_Witness ==
    /\ last.op = "ReceivePacket" /\ nic.read = 1
    /\ nic.nextPacket = 0 /\ nic.ERXRDPT = 6143

-----------------------------------------------------------------------------
(* C30 *)

\* C30: after every SelectBank(addr) call, and after every register read
\* or write that makes it, the bank selected in the chip,
\* ECON1[BSEL1:BSEL0], is (addr >> 8) & 3, and the cache holds it; a call
\* whose bank equals the cached bank makes no SPI transaction to select it.
C30_BankSelected ==
    [][last'.op \in {"SelectBank", "ReadReg", "WriteReg"} =>
        LET bank == (last'.x \div 256) % 4
            access == IF last'.op = "SelectBank" THEN 0 ELSE 1
        IN  /\ Bsel(nic') = bank
            /\ nic'.currentBank = bank * 256
            /\ nic.currentBank = bank * 256 => Len(nic'.spi) = access
            /\ nic.currentBank # bank * 256 => Len(nic'.spi) > access
            /\ access = 1 => nic'.spi[Len(nic'.spi)][4] = bank]_vars

\* MISTAT was read while bank 3 was cached and selected, TXRTS being set:
\* one transaction
C30_Witness ==
    /\ last.op = "ReadReg" /\ last.x = ENC28J60_MISTAT
    /\ Len(nic.spi) = 1 /\ Bsel(nic) = 3
    /\ BitAnd(nic.ECON1, ENC28J60_ECON1_TXRTS) # 0

-----------------------------------------------------------------------------
(* C28 *)

\* C28: decoding ignores PAD bytes: unpackOptions yields the same option
\* map as it yields for the same options with the PAD bytes between them
\* removed, and nothing after the END byte is decoded.
C28_PadIgnored ==
    [][last'.op = "unpackOptions" =>
        last'.options = unpackOptions(Flat(NoPad(last.items)))]_vars

\* what the claim is about does happen: a PAD byte before an option
C28_PadDecoded ==
    /\ last.op = "unpackOptions"
    /\ last.items = <<PadItem, <<53, 1, 5>>, EndItem>>
    /\ last.options = {<<0, <<1, 5, 255>>>>}

-----------------------------------------------------------------------------
(* Properties of fragmentation.  The fields of an IPv4 header as a         *)
(* receiver reads them.                                                    *)

IpTotLen(h) == h[3] * 256 + h[4]

IpIdent(h) == h[5] * 256 + h[6]

IpMF(h) == (h[7] \div 32) % 2

\* the fragment offset, in units of 8 bytes
IpFragOffset(h) == (h[7] % 32) * 256 + h[8]

RECURSIVE CatPayloads(_)
CatPayloads(frames) ==
    IF frames = <<>> THEN <<>>
    ELSE Head(frames).payload \o CatPayloads(Tail(frames))

AllUp(links) == \A k \in DOMAIN links : links[k]

(* C21 *)

\* C21: for every payload with 20 + 8 + len(data) > 1500 sent while the
\* link stays up, the payloads of the fragments, taken in order, make up
\* the UDP header followed by the data; every fragment but the last has
\* MF = 1 and the last MF = 0; the offset of each fragment, a multiple of
\* 8 bytes, is the number of payload bytes sent before it; the total length
\* of each is that of its header and payload and at most 1500; all carry
\* the same identification, the counter before the call; the UDP header
\* is in the first fragment only.
C21_Fragments ==
    [][(last'.op = "sendUdp4" /\ 20 + 8 + last'.data_len > EthMTU /\ AllUp(last'.links)) =>
        LET F == txFrames'
            data == FragData(last'.data_len)
            udp == makeUdp4Hdr(Y1, 7, PeerIp, last'.dport, data)
        IN  /\ Len(F) >= 2
            /\ CatPayloads(F) = udp \o data
            /\ SubSeq(F[1].payload, 1, UDP_HDR_SIZE) = udp
            /\ \A i \in 1..Len(F) :
                 /\ IpMF(F[i].ip) = IF i < Len(F) THEN 1 ELSE 0
                 /\ IpFragOffset(F[i].ip) * 8 = Len(CatPayloads(SubSeq(F, 1, i - 1)))
                 /\ IpTotLen(F[i].ip) = IP4_HDR_NOOPT_SIZE + Len(F[i].payload)
                 /\ IpTotLen(F[i].ip) <= EthMTU
                 /\ IpIdent(F[i].ip) = last'.ident % 65536
                 /\ F[i].ip = makeIp4Hdr(Y1, PeerIp, last'.ident, IP4_TYPE_UDP,
                                         Len(F[i].payload), 32 * IpMF(F[i].ip),
                                         IpFragOffset(F[i].ip))
                 /\ F[i].eth_dst = PeerMac /\ F[i].eth_src = MyMac]_vars

\* 2953 bytes were sent: two full fragments and one of one byte
C21_Witness ==
    /\ last.op = "sendUdp4" /\ last.data_len = 2953 /\ AllUp(last.links)
    /\ Len(txFrames) = 3
    /\ Len(txFrames[3].payload) = 1
    /\ IpFragOffset(txFrames[3].ip) = 370

(* C22 *)

\* C22 as stated: a payload of 3000 bytes sent to the resolved local peer
\* leaves in 3 frames of IP total lengths 1500, 1500 and 540.
C22_Lengths540 ==
    [][(last'.op = "sendUdp4" /\ last'.data_len = 3000 /\ AllUp(last'.links)) =>
        /\ Len(txFrames') = 3
        /\ IpTotLen(txFrames'[1].ip) = 1500
        /\ IpTotLen(txFrames'[2].ip) = 1500
        /\ IpTotLen(txFrames'[3].ip) = 540]_vars

\* C22, amended: a payload of 3000 bytes sent to the resolved local peer
\* while the link is up leaves in exactly 3 frames of IP total lengths
\* 1500, 1500 and 68, with fragment offsets 0, 185 and 370, MF flags 1, 1
\* and 0, and one identification.
C22_Fragments3000 ==
    [][(last'.op = "sendUdp4" /\ last'.data_len = 3000 /\ AllUp(last'.links)) =>
        LET F == txFrames'
        IN  /\ Len(F) = 3
            /\ <<IpTotLen(F[1].ip), IpTotLen(F[2].ip), IpTotLen(F[3].ip)>> = <<1500, 1500, 68>>
            /\ <<Len(F[1].payload), Len(F[2].payload), Len(F[3].payload)>> = <<1480, 1480, 48>>
            /\ <<IpFragOffset(F[1].ip), IpFragOffset(F[2].ip), IpFragOffset(F[3].ip)>>
                   = <<0, 185, 370>>
            /\ <<IpMF(F[1].ip), IpMF(F[2].ip), IpMF(F[3].ip)>> = <<1, 1, 0>>
            /\ IpIdent(F[1].ip) = IpIdent(F[2].ip)
            /\ IpIdent(F[2].ip) = IpIdent(F[3].ip)]_vars

C22_Witness ==
    /\ last.op = "sendUdp4" /\ last.data_len = 3000 /\ AllUp(last.links)
    /\ Len(txFrames) = 3
    /\ IpTotLen(txFrames[3].ip) = 68

-----------------------------------------------------------------------------
(* Properties of frame reception.  In a step of EthSpec last'.g tells what *)
(* the frame carried, last'.link the link state read by SendPacket and     *)
(* txFrames' the frames the NIC accepted.                                  *)

ArpReceived(o, oper) ==
    /\ o.op = "procEth" /\ o.g.kind = "arp" /\ o.g.x = oper /\ o.g.tci = NoInt

(* C24 *)

\* C24: an ARP request whose target address is the host's is answered,
\* the link being up, by exactly one frame: an ARP reply (operation 2)
\* addressed to the requester's MAC, with the host's MAC and IP as sender
\* and the requester's MAC and IP as target; a request for another address
\* is answered by no frame.  The host's state does not change.
C24_ArpReply ==
    [][ArpReceived(last', ARP_OP_REQUEST) =>
        LET g == last'.g
        IN  /\ ntw' = ntw
            /\ (g.dst = ntw.myIp4Addr /\ last'.link) =>
                   txFrames' = << << g.mac, MyMac, <<8, 6, 0, 1, 8, 0, 6, 4, 0, 2>>,
                                     MyMac, ntw.myIp4Addr, g.mac, g.src >> >>
            /\ g.dst # ntw.myIp4Addr => txFrames' = <<>>]_vars

\* the host at 10.0.2.51 asked for the host's address and was answered
C24_Witness ==
    /\ ArpReceived(last, ARP_OP_REQUEST) /\ last.g.dst = Y1 /\ last.g.src = Y2
    /\ Len(txFrames) = 1
    /\ txFrames[1][1] = MacB /\ txFrames[1][7] = Y2

(* C25 *)

Inserts(o) == ArpReceived(o, ARP_OP_REPLY) \/ o.op = "addArpEntry"

\* C25: no key is ever removed from the ARP table; after a received ARP
\* reply (IP, MAC), and after addArpEntry with a packed address,
\* getArpEntry(IP) returns that MAC for the address given as 4 bytes or as
\* a packed integer; an entry changes only when its address is inserted
\* again, so the MAC returned is the one inserted last.
C25_ArpTable ==
    [][/\ DOMAIN ntw.arpTable \subseteq DOMAIN ntw'.arpTable
       /\ Inserts(last') =>
              /\ PackIp(last'.g.src) \in DOMAIN ntw'.arpTable
              /\ getArpEntry(ntw', last'.g.src) = last'.g.mac
              /\ getArpEntryInt(ntw', PackIp(last'.g.src)) = last'.g.mac
       /\ \A k \in DOMAIN ntw.arpTable :
              ~(Inserts(last') /\ k = PackIp(last'.g.src)) =>
                  ntw'.arpTable[k] = ntw.arpTable[k]]_vars

\* a reply replaced the address the application had entered for
\* 10.0.2.51, the peer 10.0.2.5 being known too
C25_Witness ==
    /\ ArpReceived(last, ARP_OP_REPLY) /\ last.g.src = Y2
    /\ last.was = <<MacA>>
    /\ getArpEntryInt(ntw, PackIp(Y2)) = MacB
    /\ PackIp(PeerIp) \in DOMAIN ntw.arpTable

(* C26 *)

\* C26: a frame whose outer EtherType is 0x8100 is handled as the same
\* frame without its tag, the payload being taken at offset 18 and the
\* handler chosen by the inner EtherType; an untagged frame has its
\* payload at offset 14; 0x0800 goes to IPv4, 0x0806 to ARP, and for any
\* other type no handler runs and nothing is transmitted.
C26_TagSkipped ==
    [][last'.op = "procEth" =>
        LET g == last'.g
            frame == EthBytes(g)
            offset == IF g.tci = NoInt THEN 14 ELSE 18
            eth_src == SubSeq(frame, 7, 12)
            r == CASE g.type = ETH_TYPE_IP4 ->
                        procIp4(ntw, SubSeq(frame, offset + 1, Len(frame)), eth_src, <<last'.link>>)
                   [] g.type = ETH_TYPE_ARP ->
                        procArp(ntw, frame, offset, eth_src, last'.link)
                   [] OTHER -> [n |-> ntw, tx |-> <<>>, calls |-> <<>>, exc |-> "none"]
        IN  /\ ntw' = r.n
            /\ txFrames' = r.tx
            /\ last'.calls = r.calls]_vars

\* what happens instead: a tagged datagram for a registered port reaches
\* no handler
C26_TaggedDropped ==
    /\ last.op = "procEth" /\ last.g.kind = "udp" /\ last.g.tci = 100
    /\ last.calls = <<>>

(* C27 *)

\* the step hands over no untagged ICMP message for the host's address
\* while the link is up, or it answers an echo request with one echo reply
\* (type 0, code 0) to the source IP and MAC of the request, which carries
\* the bytes of the request after its checksum and whose ICMP and IPv4
\* header checksums verify, and answers nothing else
EchoAnswered ==
    (last'.op = "procEth" /\ last'.g.kind \in {"icmp", "frag"} /\ last'.g.tci = NoInt
        /\ last'.g.dst = ntw.myIp4Addr /\ last'.link) =>
        LET g == last'.g
            req == SubSeq(g.body, IP4_HDR_NOOPT_SIZE + 1, Len(g.body))
            F == txFrames'
        IN  IF g.kind = "icmp" /\ g.x = ICMP4_ECHO_REQUEST
            THEN /\ Len(F) = 1
                 /\ F[1].eth_dst = g.mac /\ F[1].eth_src = MyMac
                 /\ SubSeq(F[1].ip, 13, 16) = ntw.myIp4Addr
                 /\ SubSeq(F[1].ip, 17, 20) = g.src
                 /\ F[1].ip[10] = IP4_TYPE_ICMP
                 /\ IpMF(F[1].ip) = 0 /\ IpFragOffset(F[1].ip) = 0
                 /\ IpTotLen(F[1].ip) = IP4_HDR_NOOPT_SIZE + Len(F[1].payload)
                 /\ calcChecksum(F[1].ip, 0) = 0
                 /\ Len(F[1].payload) = Len(req)
                 /\ F[1].payload[1] = 0 /\ F[1].payload[2] = 0
                 /\ SubSeq(F[1].payload, 5, Len(req)) = SubSeq(req, 5, Len(req))
                 /\ calcChecksum(F[1].payload, 0) = 0
            ELSE F = <<>>

\* C27: an ICMP echo request (type 8) in an unfragmented IPv4 datagram to
\* the host's address is answered, the link being up, by exactly one
\* frame: an echo reply (type 0, code 0) sent to the source IP and MAC of
\* the request, with the identifier, sequence number and payload of the
\* request, and ICMP and IPv4 header checksums that verify; no frame
\* answers another ICMP type, nor a fragment.
C27_EchoReply == [][EchoAnswered]_vars

\* what happens instead: an echo request whose IP total length leaves fewer
\* than 4 bytes of ICMP message raises IndexError in sendIcmp4EchoReply; no
\* frame leaves and the identification counter stays
C27_Truncated ==
    /\ last.op = "procEth" /\ last.g.kind = "icmp" /\ last.g.tci = NoInt
    /\ last.g.x = ICMP4_ECHO_REQUEST /\ last.g.dst = Y1 /\ last.link
    /\ Len(last.g.body) - IP4_HDR_NOOPT_SIZE < 4
    /\ last.exc = "IndexError"
    /\ txFrames = <<>>

\* the requests that hold their 4-byte header are answered as C27 says
C27_WholeHeader ==
    [][(last'.op = "procEth" /\ Len(last'.g.body) - IP4_HDR_NOOPT_SIZE < 4)
           \/ EchoAnswered]_vars

\* an echo request with 5 bytes of payload was answered
C27_Witness ==
    /\ last.op = "procEth" /\ last.g.kind = "icmp" /\ last.g.tci = NoInt
    /\ last.g.x = ICMP4_ECHO_REQUEST /\ last.g.dst = Y1 /\ last.link
    /\ Len(txFrames) = 1
    /\ Len(txFrames[1].payload) = 13
    /\ SubSeq(txFrames[1].payload, 5, 13) = <<18, 52, 0, 7>> \o Hello

-----------------------------------------------------------------------------
(* C23 *)

\* the identification field of a frame on the wire
IdentOf(f) == IF "ip" \in DOMAIN f THEN IpIdent(f.ip) ELSE IpIdent(Udp4Wire(f))

\* a call that built a datagram: every one but a sendUdp4 that raised
Built(o) == o.op = "sendIcmp4EchoReply" \/ o.ret # <<>>

\* C23: the identification counter never decreases; an echo reply, a
\* sendUdp4, a sendUdp4Bcast and a sendTcp4 each add exactly one to it per
\* datagram, however many fragments the datagram has, and nothing when no
\* datagram is built; every frame of the datagram carries the value the
\* counter had before, in the 16 bits of the field.
C23_IdentCounter ==
    [][/\ ntw'.ip4TxCount >= ntw.ip4TxCount
       /\ Built(last') => ntw'.ip4TxCount = ntw.ip4TxCount + 1
       /\ ~Built(last') => (ntw'.ip4TxCount = ntw.ip4TxCount /\ txFrames' = <<>>)
       /\ \A i \in 1..Len(txFrames') :
              IdentOf(txFrames'[i]) = ntw.ip4TxCount % 65536]_vars

\* a datagram sent in two fragments after 65535 others: both carry 65535
\* and the counter is 65536
C23_Witness ==
    /\ last.op = "sendUdp4" /\ last.data_len = 1473
    /\ Len(txFrames) = 2
    /\ IdentOf(txFrames[1]) = 65535 /\ IdentOf(txFrames[2]) = 65535
    /\ ntw.ip4TxCount = 65536


-----------------------------------------------------------------------------
(* Properties of the driver's SPI transactions.  A transaction of nic.spi  *)
(* is <<opcode, address, data, chip bank before, cached bank at the        *)
(* release of chip-select, ECON1 before, ECON1 after>>.                    *)

\* at the release of chip-select the cache holds the bank the chip selects
Agrees(e) == e[5] = (e[7] % 4) * 256

\* the transaction sets or clears bank-select bits of ECON1, as SelectBank does
SelectsBank(e) ==
    /\ e[1] \in {"BFS", "BFC"}
    /\ e[2] = BitAnd(ENC28J60_ECON1, REG_ADDR_MASK)
    /\ e[3] \in {ENC28J60_ECON1_BSEL0, ENC28J60_ECON1_BSEL1,
                 ENC28J60_ECON1_BSEL1 + ENC28J60_ECON1_BSEL0}

\* C31 as stated: at every release of chip-select, from the soft reset on
\* and through init, SendPacket and ReceivePacket, the cached bank equals
\* the bank selected in ECON1[BSEL1:BSEL0].
C31_CacheAtEveryRelease ==
    \A i \in 1..Len(nic.spi) : Agrees(nic.spi[i])

\* C31: once init() has run, the cached bank equals the bank selected in
\* the chip when a driver call returns and at the release of chip-select of
\* every register read and write, buffer access and bit operation of init,
\* SendPacket, ReceivePacket and IsLinkUp; the two differ only at the
\* release of the reset command and of the one or two transactions by
\* which SelectBank changes the bank, after which the cache is written.
C31_CacheAfterSelect ==
    /\ nic.up => nic.currentBank = Bsel(nic) * 256
    /\ \A i \in 1..Len(nic.spi) :
          \/ Agrees(nic.spi[i])
          \/ nic.spi[i][1] = "SRC"
          \/ /\ SelectsBank(nic.spi[i])
             /\ i < Len(nic.spi)
             /\ nic.spi[i + 1][1] \in {"BFS", "BFC"} => Agrees(nic.spi[i + 1]) \/ SelectsBank(nic.spi[i + 1])

\* a frame was sent after the bank had to be changed from 3 to 0 on the
\* way: the cache lagged at that release and agrees at the return
C31_Witness ==
    /\ last.op = "SendPacket" /\ last.ret > 0
    /\ \E i \in 1..Len(nic.spi) : ~Agrees(nic.spi[i]) /\ SelectsBank(nic.spi[i])
    /\ \E i \in 1..Len(nic.spi) : nic.spi[i][1] = "WBM" /\ Agrees(nic.spi[i])
    /\ nic.currentBank = Bsel(nic) * 256

\* the register and the bank an entry of the log addresses
At(e, reg) == e[2] = BitAnd(reg, REG_ADDR_MASK) /\ e[4] * 256 = BitAnd(reg, REG_BANK_MASK)

\* the log of an accepted SendPacket ends with: the write pointer set to
\* the start of the transmit buffer, one buffer write of the control byte
\* 0x00 and the chunks in order, ETXND set to end, and ECON1.TXRTS set
SentWithEnd(s, chunks, end) ==
    LET n == Len(s)
    IN  /\ n >= 6
        /\ s[n - 5][1] = "WCR" /\ At(s[n - 5], ENC28J60_EWRPTL) /\ s[n - 5][3] = 0
        /\ s[n - 4][1] = "WCR" /\ At(s[n - 4], ENC28J60_EWRPTH) /\ s[n - 4][3] = 24
        /\ s[n - 3][1] = "WBM" /\ s[n - 3][3] = <<0>> \o Concat(chunks)
        /\ \A i \in 1..n : s[i][1] = "WBM" => i = n - 3
        /\ s[n - 2][1] = "WCR" /\ At(s[n - 2], ENC28J60_ETXNDL) /\ s[n - 2][3] = end % 256
        /\ s[n - 1][1] = "WCR" /\ At(s[n - 1], ENC28J60_ETXNDH) /\ s[n - 1][3] = end \div 256
        /\ s[n][1] = "BFS" /\ At(s[n], ENC28J60_ECON1) /\ s[n][3] = ENC28J60_ECON1_TXRTS
        /\ \A i \in 1..(n - 1) : ~(s[i][1] = "BFS" /\ s[i][3] = ENC28J60_ECON1_TXRTS)

\* C32 as stated: for every accepted frame of total length len, SendPacket
\* writes the control byte 0x00 and the chunks in order from 0x1800 on and
\* programs ETXND = 0x1800 + len - 1 before it sets ECON1.TXRTS.
C32_TxEndBeforeLength ==
    last.op = "SendPacket" /\ last.ret >= 0
        => SentWithEnd(nic.spi, last.chunks, ENC28J60_TX_BUFFER_START + last.ret - 1)

\* C32: for every accepted frame of total length len (<= 1518), SendPacket
\* writes the control byte 0x00 and the chunks in order from 0x1800 on and
\* programs ETXND = 0x1800 + len, the address of the last byte written
\* (the control byte is at 0x1800), before it sets ECON1.TXRTS.
C32_TxEndAtLength ==
    last.op = "SendPacket" /\ last.ret >= 0
        => /\ last.ret = ChunksLen(last.chunks) /\ last.ret <= ENC28J60_ETH_TX_BUFFER_SIZE
           /\ SentWithEnd(nic.spi, last.chunks, ENC28J60_TX_BUFFER_START + last.ret)

\* a frame of 1518 bytes in two chunks was accepted: ETXND is 0x1DEE
C32_Witness ==
    /\ last.op = "SendPacket" /\ last.ret = 1518 /\ Len(last.chunks) = 2
    /\ nic.spi[Len(nic.spi) - 1][3] = 29 /\ nic.spi[Len(nic.spi) - 2][3] = 238

\* C35: SendPacket never pulses ECON1.TXRST and never writes the transmit
\* buffer while the transmission a previous SendPacket started is still in
\* progress in the chip, that is, while ECON1.TXRTS is still set.
C35_NoTxWhileBusy ==
    last.op = "SendPacket"
        => \A i \in 1..Len(nic.spi) :
              \/ BitAnd(nic.spi[i][6], ENC28J60_ECON1_TXRTS) = 0
              \/ ~ \/ nic.spi[i][1] = "WBM"
                   \/ /\ nic.spi[i][1] = "BFS" /\ At(nic.spi[i], ENC28J60_ECON1)
                      /\ nic.spi[i][3] = ENC28J60_ECON1_TXRST

-----------------------------------------------------------------------------
(* The value sendUdp4 returns.  In a state of FragSpec last.links[k] is    *)
(* the link state the k-th SendPacket call of the send read.               *)

\* the number of frames sendUdp4 hands to the NIC for a payload
FragCalls(data_len) ==
    IF IP4_HDR_NOOPT_SIZE + UDP_HDR_SIZE + data_len <= EthMTU THEN 1
    ELSE LET ip_mfo == ((EthMTU - IP4_HDR_NOOPT_SIZE) \div 8) * 8
         IN  (UDP_HDR_SIZE + data_len + ip_mfo - 1) \div ip_mfo

\* C38: sendUdp4 returns a negative value whenever the NIC rejected at
\* least one frame of the datagram; a non-negative value means that every
\* fragment was accepted, also when the link goes down between two
\* fragments.
C38_RejectedIsNegative ==
    last.op = "sendUdp4"
        => /\ Len(last.ret) = 1
           /\ (\E k \in 1..FragCalls(last.data_len) : ~last.links[k]) => last.ret[1] < 0

-----------------------------------------------------------------------------
(* The checksum round trip, in states of SumSpec.                          *)

\* C34: for every byte sequence with a 16-bit-aligned checksum field, of
\* even or odd length up to a full frame, if the checksum computed over
\* the sequence with the field zeroed is stored big-endian in the field,
\* the checksum of the result is 0; a trailing odd byte counts as the high
\* byte of a word whose low byte is zero.
C34_ChecksumRoundTrip ==
    last.op = "checksum"
        => LET c == calcChecksum(last.data, 0)
               B == txFrames[1]
           IN  /\ c \in 0..65535
               /\ B = [last.data EXCEPT ![last.offset + 1] = c \div 256,
                                        ![last.offset + 2] = c % 256]
               /\ calcChecksum(B, 0) = 0
               /\ Len(B) % 2 = 1 => calcChecksum(B, 0) = calcChecksum(B \o <<0>>, 0)

\* a sequence of 1517 bytes, an odd length, whose checksum is not zero and
\* whose word sum carries out of 16 bits more than once
C34_Witness ==
    /\ last.op = "checksum" /\ Len(last.data) = ENC28J60_ETH_TX_BUFFER_SIZE - 1
    /\ last.offset = 10
    /\ WordSum(last.data) > 2 * 65536
    /\ calcChecksum(last.data, 0) \notin {0, 65535}
    /\ calcChecksum(txFrames[1], 0) = 0

-----------------------------------------------------------------------------
(* The registries and the host configuration along the life of the client, *)
(* in states and steps of Spec.                                            *)

\* C36: whenever the DHCP client is in Bound, neither the UDP broadcast
\* registry nor the UDP unicast registry holds the DHCP callback for port
\* 68, after any sequence of ticks, replies and time-outs.
C36_BoundUnregistered ==
    dhcp.state = "Bound"
        => /\ DHCP4_PORT_CLIENT \notin DOMAIN ntw.udp4BcastBind
           /\ DHCP4_PORT_CLIENT \notin DOMAIN ntw.udp4UniBind

\* the reply lacks option 53, or is an ACK without option 1 or option 3
Malformed(msg) ==
    \/ msg.msgtype = NoInt
    \/ msg.msgtype = DHCP4_MSG_TYPE_ACK /\ (msg.mask = NoIp \/ msg.router = NoIp)

\* C39: a DHCP reply that passes the op, xid, htype, hlen and chaddr checks
\* but is malformed is silently dropped: no error propagates out of
\* rxAllPkt, and the DHCP state, yiaddr, siaddr, the timers and the host's
\* IPv4 configuration are left unchanged.
C39_MalformedDropped ==
    [][(last'.op = "rx" /\ HeaderOk(dhcp, last'.msg) /\ Malformed(last'.msg)) =>
        /\ last'.exc = "none"
        /\ dhcp' = dhcp
        /\ ntw' = ntw]_vars

\* the host's IPv4 configuration
Config(n) == <<n.configIp4Done, n.myIp4Addr, n.netIp4Mask, n.gwIp4Addr>>

\* frames of the host at 10.0.2.51 for the address a: an ARP request and
\* an echo request
ArpAsk(a) ==
    EthBytes(Carried("arp", NoInt, ETH_TYPE_ARP, MacB, Y2, a, ARP_OP_REQUEST,
                     ArpPkt(ARP_OP_REQUEST, MacB, Y2, <<0, 0, 0, 0, 0, 0>>, a)))

EchoAsk(a) ==
    EthBytes(Carried("icmp", NoInt, ETH_TYPE_IP4, MacB, Y2, a, ICMP4_ECHO_REQUEST,
                     Ip4Pkt(Y2, a, IP4_TYPE_ICMP, 0, IcmpMsg(ICMP4_ECHO_REQUEST, 4660, 7, Hello))))

\* C40: once the host's IPv4 configuration has been set, no later event
\* clears it; address, mask and gateway change only when an ACK installs
\* those of a new lease; when the client falls back from Renewing to Init,
\* on expiry of T2 or of the lease, after the attempt limit or after a
\* reply of another type, the host keeps the leased address, mask and
\* gateway and still answers ARP and echo requests for that address.
C40_ConfigKept ==
    [][ntw.configIp4Done =>
        /\ ntw'.configIp4Done
        /\ Config(ntw') # Config(ntw) =>
              /\ last'.op = "rx" /\ last'.msg.msgtype = DHCP4_MSG_TYPE_ACK
              /\ dhcp'.state = "Bound"
              /\ Config(ntw') = <<TRUE, last'.msg.yiaddr, last'.msg.mask, last'.msg.router>>
        /\ (dhcp.state = "Renewing" /\ dhcp'.state = "Init") =>
              /\ Config(ntw') = Config(ntw)
              /\ procEth(ntw', ArpAsk(ntw.myIp4Addr), <<TRUE>>).tx
                     = <<makeArpReply(MacB, MyMac, ntw.myIp4Addr, Y2)>>
              /\ Len(procEth(ntw', EchoAsk(ntw.myIp4Addr), <<TRUE>>).tx) = 1]_vars

\* T2 expired during the renewal: the client is back in Init and the host
\* still has the address, mask and gateway of the lease
C40_Witness ==
    /\ last.op = "loop" /\ last.from = "Renewing" /\ dhcp.state = "Init"
    /\ now - dhcp.bound_time > dhcp.rebinding_seconds
    /\ Config(ntw) = <<TRUE, Y1, Mask24, SrvLocal>>

-----------------------------------------------------------------------------
(* Termination of the PHY register accesses, in behaviours of PhySpec.     *)

\* C33: a PHY register access does not wait indefinitely on MISTAT.BUSY:
\* WritePhyReg and ReadPhyReg, once called, always return, normally when
\* BUSY reads clear or with an error when BUSY stays set past a deadline.
C33_PhyAccessReturns ==
    (nic.pc # "idle") ~> (nic.pc = "idle")

-----------------------------------------------------------------------------
(* The client without a server *)

\* C37: while the clock advances, loop() keeps being called and no DHCP
\* reply arrives, a client in AwaitOffer, Selecting, Bound, RenewingInit or
\* Renewing eventually is in Init again.
C37_BackToInit ==
    (dhcp.state # "Init") ~> (dhcp.state = "Init")
=============================================================================
